---- MODULE Spec2Model ----
(***************************************************************************)
(* Model of the spatial zone classifier and the spatial aggregator of      *)
(* src/src/tools/lib/spatial_analysis.py.                                  *)
(*                                                                         *)
(* Numbers are exact rationals <<n, d>> (d > 0, lowest terms); the square  *)
(* roots the code takes are kept exact by comparing squares.  Floating     *)
(* point rounding is not modelled.                                         *)
(***************************************************************************)
EXTENDS Integers, Sequences, FiniteSets, TLC

VARIABLES zones, world_radius, pc, remaining, zone_species_data, zone_totals,
          species_zone_data, errors, total_organisms, last, snapshot,
          bb8_files, field_paths, results, analysis_summary, autosave_files,
          data_dirs, resolved, compared, calls,
          json_data,
          file_info

vars == <<zones, world_radius, pc, remaining, zone_species_data, zone_totals,
          species_zone_data, errors, total_organisms, last, snapshot,
          bb8_files, field_paths, results, analysis_summary, autosave_files,
          data_dirs, resolved, compared, calls,
          json_data,
          file_info>>

\* the state of the command line tool: autosaves, data/ and the last call
cliVars == <<autosave_files, data_dirs, resolved, compared, calls>>

(***************************************************************************)
(* Bounds of the model.                                                    *)
(***************************************************************************)
MaxZones == 2
MaxResolved == 2
MaxFiles == 2
MaxSaves == 2
MaxCalls == 2

(***************************************************************************)
(* Exact arithmetic standing for the float arithmetic of the code.         *)
(***************************************************************************)
Abs(n) == IF n < 0 THEN 0 - n ELSE n

RECURSIVE GCD(_, _)
GCD(a, b) == IF b = 0 THEN a ELSE GCD(b, a % b)

Rat(n, d) ==
    LET g == GCD(Abs(n), d)
    IN  IF n = 0 THEN <<0, 1>> ELSE <<n \div g, d \div g>>

Zero == Rat(0, 1)

RAdd(a, b) == Rat(a[1] * b[2] + b[1] * a[2], a[2] * b[2])
RSub(a, b) == Rat(a[1] * b[2] - b[1] * a[2], a[2] * b[2])
RMul(a, b) == Rat(a[1] * b[1], a[2] * b[2])
RDivInt(a, k) == Rat(a[1], a[2] * k)
RLt(a, b) == a[1] * b[2] < b[1] * a[2]
RLe(a, b) == a[1] * b[2] <= b[1] * a[2]
RSq(a) == RMul(a, a)

\* sqrt(q) <= r, sqrt(q) < r, r <= sqrt(q), r < sqrt(q) for q >= 0
SqrtLe(q, r) == RLe(Zero, r) /\ RLe(q, RSq(r))
SqrtLt(q, r) == RLt(Zero, r) /\ RLt(q, RSq(r))
LeSqrt(r, q) == RLe(r, Zero) \/ RLe(RSq(r), q)
LtSqrt(r, q) == RLt(r, Zero) \/ RLt(RSq(r), q)

(***************************************************************************)
(* dict.get(key, default) on a zone definition.                            *)
(***************************************************************************)
ZGet(zone, key, default) == IF key \in DOMAIN zone THEN zone[key] ELSE default

\* The square of calculate_distance_from_center(x, y).
calculate_distance_from_center(x, y) == Rat(x * x + y * y, 1)

\* Mutant: the AntiPred workaround is missing.
ZoneFields_NoWorkaround(zone, R) ==
    LET rel == ZGet(zone, "radiusIsRelative", TRUE)
    IN  [name |-> ZGet(zone, "name", "Unknown"),
         radius |-> IF rel THEN ZGet(zone, "radius", Zero)
                    ELSE RDivInt(ZGet(zone, "radius", Zero), R),
         inside_radius |-> IF rel THEN ZGet(zone, "insideRadius", Zero)
                           ELSE RDivInt(ZGet(zone, "insideRadius", Zero), R),
         pos_x |-> IF rel THEN ZGet(zone, "posX", Zero)
                   ELSE RDivInt(ZGet(zone, "posX", Zero), R),
         pos_y |-> IF rel THEN ZGet(zone, "posY", Zero)
                   ELSE RDivInt(ZGet(zone, "posY", Zero), R),
         distribution |-> ZGet(zone, "distribution", "")]

(***************************************************************************)
(* The body of the loop over zones of classify_zone_concentric: the fields *)
(* read with their defaults, the normalisation of absolute zones and the   *)
(* AntiPred workaround.                                                    *)
(***************************************************************************)
ZoneFields(zone, R) ==
    LET rel == ZGet(zone, "radiusIsRelative", TRUE)
        name == ZGet(zone, "name", "Unknown")
        d0 == ZGet(zone, "distribution", "")
    IN  [name |-> name,
         radius |-> IF rel THEN ZGet(zone, "radius", Zero)
                    ELSE RDivInt(ZGet(zone, "radius", Zero), R),
         inside_radius |-> IF rel THEN ZGet(zone, "insideRadius", Zero)
                           ELSE RDivInt(ZGet(zone, "insideRadius", Zero), R),
         pos_x |-> IF rel THEN ZGet(zone, "posX", Zero)
                   ELSE RDivInt(ZGet(zone, "posX", Zero), R),
         pos_y |-> IF rel THEN ZGet(zone, "posY", Zero)
                   ELSE RDivInt(ZGet(zone, "posY", Zero), R),
         distribution |-> IF name = "AntiPred" /\ d0 = "Flat"
                          THEN "CentricGradual" ELSE d0]

\* The candidate one zone appends to positioned_zones or concentric_zones
\* (kind "none": nothing is appended).  distance_from_center is kept squared.
NoCandidate == [kind |-> "none"]

\* Mutant: every ring is appended, valid or not.
RingCandidate_Unchecked(f) ==
    [kind |-> "concentric", name |-> f.name,
     min_distance |-> RMul(f.inside_radius, f.radius),
     max_distance |-> f.radius, priority |-> 2]

\* Mutant: a ring whose inside radius equals its radius is appended.
RingCandidate_AcceptEqual(f) ==
    IF RLe(RMul(f.inside_radius, f.radius), f.radius)
    THEN RingCandidate_Unchecked(f)
    ELSE [kind |-> "none"]

\* the Ring/FlatRing branch: actual_inside_radius = inside_radius * radius,
\* appended only when actual_inside_radius < radius
RingCandidate(f) ==
    LET actual_inside_radius == RMul(f.inside_radius, f.radius)
    IN  IF RLt(actual_inside_radius, f.radius)
        THEN [kind |-> "concentric", name |-> f.name,
              min_distance |-> actual_inside_radius,
              max_distance |-> f.radius, priority |-> 2]
        ELSE NoCandidate

ZoneCandidate(zone, x, y, R) ==
    LET f == ZoneFields(zone, R)
        rel_x == Rat(x, R)
        rel_y == Rat(y, R)
        atOrigin == f.pos_x = Zero /\ f.pos_y = Zero
        zone_distance == RAdd(RSq(RSub(rel_x, f.pos_x)), RSq(RSub(rel_y, f.pos_y)))
    IN  IF f.distribution = "Flat" /\ ~atOrigin
        THEN IF SqrtLe(zone_distance, f.radius)
             THEN [kind |-> "positioned", name |-> f.name,
                   distance_from_center |-> zone_distance, priority |-> 0]
             ELSE NoCandidate
        ELSE IF f.distribution = "CentricGradual" /\ atOrigin
        THEN [kind |-> "concentric", name |-> f.name, min_distance |-> Zero,
              max_distance |-> f.radius, priority |-> 1]
        ELSE IF f.distribution \in {"Ring", "FlatRing"} /\ atOrigin
        THEN RingCandidate(f)
        ELSE NoCandidate

RECURSIVE Candidates(_, _, _, _, _)
Candidates(zs, kind, x, y, R) ==
    IF zs = <<>> THEN <<>>
    ELSE LET c == ZoneCandidate(Head(zs), x, y, R)
         IN  (IF c.kind = kind THEN <<c>> ELSE <<>>)
             \o Candidates(Tail(zs), kind, x, y, R)

positioned_zones(zs, x, y, R) == Candidates(zs, "positioned", x, y, R)
concentric_zones(zs, x, y, R) == Candidates(zs, "concentric", x, y, R)

\* Mutant: the first containing positioned zone wins, whatever its distance.
closest_positioned_FirstInList(ps) == ps[1]

\* min(positioned_zones, key=distance_from_center): the first minimal element
closest_positioned(ps) ==
    LET i == CHOOSE i \in 1..Len(ps) :
                 /\ \A j \in 1..Len(ps) :
                        RLe(ps[i].distance_from_center, ps[j].distance_from_center)
                 /\ \A j \in 1..(i - 1) :
                        RLt(ps[i].distance_from_center, ps[j].distance_from_center)
    IN  ps[i]

\* list.sort(key=(priority, max_distance - min_distance)), a stable sort
Width(z) == RSub(z.max_distance, z.min_distance)

\* Mutant: the sort key is the width alone.
KeyLt_WidthOnly(a, b) == RLt(Width(a), Width(b))

KeyLt(a, b) ==
    \/ a.priority < b.priority
    \/ a.priority = b.priority /\ RLt(Width(a), Width(b))

\* Mutant: zones equal in both keys come out in reverse input order.
SortConcentric_Unstable(cs) ==
    LET before(i, j) == KeyLt(cs[i], cs[j]) \/ (~KeyLt(cs[j], cs[i]) /\ i > j)
        rank(i) == 1 + Cardinality({j \in 1..Len(cs) : j # i /\ before(j, i)})
    IN  [k \in 1..Len(cs) |-> cs[CHOOSE i \in 1..Len(cs) : rank(i) = k]]

SortConcentric(cs) ==
    LET before(i, j) == KeyLt(cs[i], cs[j]) \/ (~KeyLt(cs[j], cs[i]) /\ i < j)
        rank(i) == 1 + Cardinality({j \in 1..Len(cs) : j # i /\ before(j, i)})
    IN  [k \in 1..Len(cs) |-> cs[CHOOSE i \in 1..Len(cs) : rank(i) = k]]

\* zone['min_distance'] <= relative_distance <= zone['max_distance'],
\* dq the square of relative_distance
Contains(z, dq) == LeSqrt(z.min_distance, dq) /\ SqrtLe(dq, z.max_distance)

\* Mutant: above the interval the gap is taken to min_distance.
DistanceDiff_ToMin(z, dq) ==
    IF ~LeSqrt(z.min_distance, dq)
    THEN [side |-> "below", bound |-> z.min_distance]
    ELSE IF ~SqrtLe(dq, z.max_distance)
    THEN [side |-> "above", bound |-> z.min_distance]
    ELSE [side |-> "inside"]

\* distance_diff of the nearest-zone loop: "below" is min_distance -
\* relative_distance, "above" is relative_distance - max_distance
DistanceDiff(z, dq) ==
    IF ~LeSqrt(z.min_distance, dq)
    THEN [side |-> "below", bound |-> z.min_distance]
    ELSE IF ~SqrtLe(dq, z.max_distance)
    THEN [side |-> "above", bound |-> z.max_distance]
    ELSE [side |-> "inside"]

\* Mutant: min_distance_diff starts at 0 instead of float('inf').
DiffLt_FromZero(a, b, dq) ==
    IF b.side = "inf" THEN FALSE
    ELSE IF a.side = "below" /\ b.side = "below" THEN RLt(a.bound, b.bound)
    ELSE IF a.side = "above" /\ b.side = "above" THEN RLt(b.bound, a.bound)
    ELSE IF a.side = "below"
    THEN LtSqrt(RDivInt(RAdd(a.bound, b.bound), 2), dq)
    ELSE SqrtLt(dq, RDivInt(RAdd(a.bound, b.bound), 2))

\* distance_diff < min_distance_diff
DiffLt(a, b, dq) ==
    IF b.side = "inf" THEN TRUE
    ELSE IF a.side = "below" /\ b.side = "below" THEN RLt(a.bound, b.bound)
    ELSE IF a.side = "above" /\ b.side = "above" THEN RLt(b.bound, a.bound)
    ELSE IF a.side = "below"
    THEN LtSqrt(RDivInt(RAdd(a.bound, b.bound), 2), dq)
    ELSE SqrtLt(dq, RDivInt(RAdd(a.bound, b.bound), 2))

\* Mutant: the nearest-zone loop keeps the first zone it meets.
ClosestLoop_KeepFirst(cs, dq, closest_zone, min_distance_diff) ==
    IF cs = <<>> THEN closest_zone ELSE Head(cs).name

RECURSIVE ClosestLoop(_, _, _, _)
ClosestLoop(cs, dq, closest_zone, min_distance_diff) ==
    IF cs = <<>> THEN closest_zone
    ELSE LET distance_diff == DistanceDiff(Head(cs), dq)
         IN  IF distance_diff.side # "inside"
                /\ DiffLt(distance_diff, min_distance_diff, dq)
             THEN ClosestLoop(Tail(cs), dq, Head(cs).name, distance_diff)
             ELSE ClosestLoop(Tail(cs), dq, closest_zone, min_distance_diff)

NoName == "<None>"

RECURSIVE FirstMatch(_, _)
FirstMatch(cs, dq) ==
    IF cs = <<>> THEN NoName
    ELSE IF Contains(Head(cs), dq) THEN Head(cs).name
    ELSE FirstMatch(Tail(cs), dq)

HasMatch(cs, dq) == \E i \in 1..Len(cs) : Contains(cs[i], dq)

\* Mutant: a point outside every interval is "Beyond", the nearest zone is
\* not looked for.
ConcentricMatch_BeyondOutside(cs, dq) ==
    IF HasMatch(SortConcentric(cs), dq) THEN FirstMatch(SortConcentric(cs), dq)
    ELSE "Beyond"

\* Mutant: no nearest-zone fallback, a point in a gap gets no zone at all.
ConcentricMatch_NoFallback(cs, dq) == FirstMatch(SortConcentric(cs), dq)

\* the "if concentric_zones:" block: sort, first containing zone, else the
\* nearest zone, else "Beyond"
ConcentricMatch(cs, dq) ==
    LET sorted == SortConcentric(cs)
        closest_zone == ClosestLoop(sorted, dq, NoName, [side |-> "inf"])
    IN  IF HasMatch(sorted, dq) THEN FirstMatch(sorted, dq)
        ELSE IF closest_zone \in {NoName, ""} THEN "Beyond"
        ELSE closest_zone

\* Mutant: concentric zones are tried before positioned ones.
Decide_ConcentricFirst(ps, cs, dq) ==
    IF cs # <<>> /\ HasMatch(cs, dq) THEN ConcentricMatch(cs, dq)
    ELSE IF ps # <<>> THEN closest_positioned(ps).name
    ELSE IF cs # <<>> THEN ConcentricMatch(cs, dq)
    ELSE "Unknown"

\* Mutant: the last return hands back the other sentinel.
Decide_BeyondWithoutCandidates(ps, cs, dq) ==
    IF ps # <<>> THEN closest_positioned(ps).name
    ELSE IF cs # <<>> THEN ConcentricMatch(cs, dq)
    ELSE "Beyond"

\* the three returns after the loop over zones
Decide(ps, cs, dq) ==
    IF ps # <<>> THEN closest_positioned(ps).name
    ELSE IF cs # <<>> THEN ConcentricMatch(cs, dq)
    ELSE "Unknown"

\* the square of relative_distance = distance / world_radius
RelativeDistanceSq(x, y, R) ==
    RDivInt(RDivInt(calculate_distance_from_center(x, y), R), R)

\* Mutant: the normalized values are written back into the zone, which is
\* then marked relative.
ZonesAfterClassify_WrittenBack(zs, R) ==
    [i \in 1..Len(zs) |->
        IF ZGet(zs[i], "radiusIsRelative", TRUE) THEN zs[i]
        ELSE [k \in DOMAIN zs[i] |->
                 IF k \in {"radius", "insideRadius", "posX", "posY"}
                 THEN RDivInt(zs[i][k], R)
                 ELSE IF k = "radiusIsRelative" THEN TRUE
                 ELSE zs[i][k]]]

\* the zone list after a call: radius, inside_radius, pos_x and pos_y are
\* locals read with zone.get, "radius /= world_radius" rebinds the local and
\* no zone is assigned to
ZonesAfterClassify(zs, R) == zs

classify_zone_concentric(x, y, zs, R) ==
    IF zs = <<>> THEN "Unknown"
    ELSE Decide(positioned_zones(zs, x, y, R), concentric_zones(zs, x, y, R),
                RelativeDistanceSq(x, y, R))

(***************************************************************************)
(* Inputs: zone definitions as parse_zone_configuration hands them over    *)
(* (dicts whose optional keys may be absent; name non-empty, material      *)
(* "Plant", radius > 0), world radii and organism positions.               *)
(***************************************************************************)
Core == [name |-> "Core", distribution |-> "CentricGradual",
         radius |-> Rat(3, 10), material |-> "Plant"]
Mid == [name |-> "Mid", distribution |-> "Ring", insideRadius |-> Rat(6, 10),
        radius |-> Rat(1, 1), material |-> "Plant"]
Basin == [name |-> "Basin", distribution |-> "CentricGradual", posX |-> Zero,
          posY |-> Zero, radius |-> Rat(1, 1), material |-> "Plant"]
Rim == [name |-> "Rim", distribution |-> "FlatRing", insideRadius |-> Rat(9, 10),
        radius |-> Rat(1, 2), posX |-> Zero, posY |-> Zero,
        material |-> "Plant"]
Old == [name |-> "Old", distribution |-> "Ring", insideRadius |-> Rat(9, 5),
        radius |-> Rat(1, 2), material |-> "Plant"]
Edge == [name |-> "Edge", distribution |-> "FlatRing", insideRadius |-> Rat(1, 1),
         radius |-> Rat(7, 10), material |-> "Plant"]
AntiPred == [name |-> "AntiPred", distribution |-> "Flat", posX |-> Zero,
             posY |-> Zero, radius |-> Rat(1, 2), material |-> "Plant"]
SanctuaryA == [name |-> "A", distribution |-> "Flat", posX |-> Rat(9, 20),
               posY |-> Zero, radius |-> Rat(1, 10), material |-> "Plant"]
SanctuaryB == [name |-> "B", distribution |-> "Flat", posX |-> Rat(1, 5),
               posY |-> Zero, radius |-> Rat(1, 5), material |-> "Plant"]
SanctuaryC == [name |-> "C", distribution |-> "Flat", posX |-> Rat(3, 5),
               posY |-> Zero, radius |-> Rat(1, 5), material |-> "Plant"]
Isle == [name |-> "Isle", distribution |-> "Flat", radiusIsRelative |-> FALSE,
         posX |-> Rat(300, 1), posY |-> Rat(400, 1), radius |-> Rat(150, 1),
         material |-> "Plant"]
Outer == [name |-> "Outer", distribution |-> "Ring", radiusIsRelative |-> FALSE,
          insideRadius |-> Rat(1, 2), radius |-> Rat(800, 1),
          material |-> "Plant"]
Belt == [name |-> "Belt", distribution |-> "Ring", insideRadius |-> Rat(3, 7),
         radius |-> Rat(7, 10), material |-> "Plant"]
Moat == [name |-> "Moat", distribution |-> "Ring", radiusIsRelative |-> FALSE,
         insideRadius |-> Rat(300, 1), radius |-> Rat(600, 1),
         material |-> "Plant"]
Fog == [name |-> "Fog", distribution |-> "Gradient", radius |-> Rat(1, 2),
        material |-> "Plant"]
Shifted == [name |-> "Shifted", distribution |-> "CentricGradual",
            posX |-> Rat(1, 10), posY |-> Zero, radius |-> Rat(1, 2),
            material |-> "Plant"]
Spawn == [name |-> "Spawn", distribution |-> "CentricGradual",
          radius |-> Rat(1, 10), material |-> "Meat"]
Unnamed == [distribution |-> "CentricGradual", radius |-> Rat(1, 5),
            material |-> "Plant"]

ZonePool == {Core, Mid, Basin, Rim, Old, Edge, AntiPred, SanctuaryA,
             SanctuaryB, SanctuaryC, Isle, Outer, Belt, Moat, Fog, Shifted}

WorldRadii == {1000, 500}

PointSet == {<<0, 0>>, <<150, 0>>, <<200, 0>>, <<400, 0>>, <<450, 0>>,
             <<500, 0>>, <<550, 0>>, <<700, 0>>, <<1200, 0>>, <<2000, 0>>,
             <<-300, 0>>, <<0, -250>>, <<300, 400>>}

SeqsUpTo(S, n) == UNION {[1..k -> S] : k \in 0..n}

ZoneLists == SeqsUpTo(ZonePool, MaxZones)

(***************************************************************************)
(* The classifier called on its own, as the pure function the toolkit      *)
(* exposes: any zone list, any point.                                      *)
(***************************************************************************)
InitClassify ==
    /\ zones \in ZoneLists
    /\ world_radius \in WorldRadii
    /\ pc = "classify"
    /\ remaining = 0
    /\ zone_species_data = <<>>
    /\ zone_totals = <<>>
    /\ species_zone_data = <<>>
    /\ errors = <<>>
    /\ total_organisms = 0
    /\ last = <<>>
    /\ snapshot = <<>>
    /\ bb8_files = <<>>
    /\ field_paths = <<>>
    /\ results = <<>>
    /\ file_info = <<>>
    /\ json_data = <<>>
    /\ calls = 0
    /\ compared = <<>>
    /\ resolved = <<>>
    /\ data_dirs = <<>>
    /\ autosave_files = <<>>
    /\ analysis_summary = <<>>

\* one call classify_zone_concentric(x, y, zones, world_radius)
Classify ==
    /\ pc = "classify"
    /\ last = <<>>
    /\ \E p \in PointSet :
           last' = <<[x |-> p[1], y |-> p[2],
                      zone |-> classify_zone_concentric(p[1], p[2], zones,
                                                        world_radius)]>>
    /\ zones' = ZonesAfterClassify(zones, world_radius)
    /\ UNCHANGED <<file_info, json_data, cliVars, analysis_summary,
                   world_radius, pc, remaining, zone_species_data,
                   zone_totals, species_zone_data, errors, total_organisms,
                   snapshot, bb8_files, field_paths, results>>

NextClassify == Classify

SpecClassify == InitClassify /\ [][NextClassify]_vars

(***************************************************************************)
(* src/src/core/parser.py: parsed JSON values and the field-path lookup.   *)
(* A value carries its JSON type in t; None is the JSON null.  Keys of     *)
(* maps and dotted paths are sequences of characters, so that              *)
(* field_path.split('.') is computed.                                      *)
(***************************************************************************)
JNull == [t |-> "null"]
JNum(n) == [t |-> "num", v |-> n]
JStr(str) == [t |-> "str", v |-> str]
JBool(b) == [t |-> "bool", v |-> b]
JList(items) == [t |-> "list", v |-> items]
JMap(entries) == [t |-> "map", v |-> entries]

\* field_path.split('.')
RECURSIVE SplitDots(_, _)
SplitDots(chars, part) ==
    IF chars = <<>> THEN <<part>>
    ELSE IF Head(chars) = "." THEN <<part>> \o SplitDots(Tail(chars), <<>>)
    ELSE SplitDots(Tail(chars), Append(part, Head(chars)))

Split(field_path) == SplitDots(field_path, <<>>)

\* current[part] for a string part: the value, or the exception raised
Subscript(current, part) ==
    IF current.t = "map"
    THEN IF part \in DOMAIN current.v THEN [val |-> current.v[part]]
         ELSE [exc |-> "KeyError"]
    ELSE [exc |-> "TypeError"]

\* the loop "for part in field_path.split('.'): current = current[part]"
RECURSIVE Walk(_, _)
Walk(current, parts) ==
    IF parts = <<>> THEN [val |-> current]
    ELSE LET step == Subscript(current, Head(parts))
         IN  IF "exc" \in DOMAIN step THEN step
             ELSE Walk(step.val, Tail(parts))

Raised(outcome) == "exc" \in DOMAIN outcome

\* Mutant: only KeyError is caught.
Recover_KeyErrorOnly(outcome) ==
    IF Raised(outcome) /\ outcome.exc = "KeyError" THEN [val |-> JNull]
    ELSE outcome

\* except (KeyError, TypeError): return None
Recover(outcome) ==
    IF Raised(outcome) /\ outcome.exc \in {"KeyError", "TypeError"}
    THEN [val |-> JNull]
    ELSE outcome

extract_field(data, field_path) == Recover(Walk(data, Split(field_path)))

\* d[key] = value on a dict
SetItem(d, key, value) ==
    [q \in DOMAIN d \cup {key} |-> IF q = key THEN value ELSE d[q]]

\* result[path] = extract_field(data, path) for each path in turn; an
\* exception of extract_field would leave the loop
RECURSIVE ExtractLoop(_, _, _)
ExtractLoop(data, paths, result) ==
    IF paths = <<>> THEN [val |-> result]
    ELSE LET found == extract_field(data, Head(paths))
         IN  IF Raised(found) THEN found
             ELSE ExtractLoop(data, Tail(paths),
                              SetItem(result, Head(paths), found.val))

extract_multiple_fields(data, paths) == ExtractLoop(data, paths, <<>>)

(***************************************************************************)
(* generate_spatial_analysis: the batch run over the organism files of a   *)
(* snapshot directory.                                                     *)
(***************************************************************************)
DefaultRadiusNoArchive == 750
DefaultRadiusNoSetting == 1500
DefaultRadiusOnError == 1500

\* a harvested candidate whose radius is text, as the candidates taken from
\* XML and INI content are (the key radiusText stands for a radius that is
\* not a number), and one without a radius
Marsh == [name |-> "Marsh", distribution |-> "CentricGradual",
          radiusText |-> "0.5", material |-> "Plant"]
Dry == [name |-> "Dry", distribution |-> "Ring", material |-> "Plant"]

\* Mutant: the radius test is radius >= 0.
IsPlantZone_AcceptZeroRadius(zone_data) ==
    /\ ZGet(zone_data, "name", "") # ""
    /\ ZGet(zone_data, "material", "") = "Plant"
    /\ RLe(Zero, ZGet(zone_data, "radius", Zero))

\* zone_data.get('name') and zone_data.get('material') == 'Plant' and
\* zone_data.get('radius', 0) > 0, for a radius that is a number
IsPlantZone(zone_data) ==
    /\ ZGet(zone_data, "name", "") # ""
    /\ ZGet(zone_data, "material", "") = "Plant"
    /\ RLt(Zero, ZGet(zone_data, "radius", Zero))

\* the comparison radius > 0 is reached with a radius that is not a number
RadiusNotComparable(zone_data) ==
    /\ ZGet(zone_data, "name", "") # ""
    /\ ZGet(zone_data, "material", "") = "Plant"
    /\ "radiusText" \in DOMAIN zone_data

\* the loop over metadata['zones']; the TypeError of the comparison leaves
\* it with the zones appended so far
RECURSIVE FilterLoop(_, _)
FilterLoop(candidates, kept) ==
    IF candidates = <<>> THEN [val |-> kept]
    ELSE IF RadiusNotComparable(Head(candidates))
    THEN [exc |-> "TypeError", zones |-> kept]
    ELSE IF IsPlantZone(Head(candidates))
    THEN FilterLoop(Tail(candidates), Append(kept, Head(candidates)))
    ELSE FilterLoop(Tail(candidates), kept)

\* the zone candidates harvested from the metadata of the snapshots modelled
HarvestedZones == {Core, Mid, SanctuaryA, Isle, Fog, Spawn, Unnamed, Marsh, Dry}

HarvestLists == SeqsUpTo(HarvestedZones, MaxResolved)

\* keys of metadata['settings']
KeySimulationSize ==
    <<"S", "i", "m", "u", "l", "a", "t", "i", "o", "n", "S", "i", "z", "e">>
KeyLowerCase ==
    <<"s", "i", "m", "u", "l", "a", "t", "i", "o", "n", "s", "i", "z", "e">>
KeyUpperCase ==
    <<"S", "I", "M", "U", "L", "A", "T", "I", "O", "N", "S", "I", "Z", "E">>
KeyCamelCase ==
    <<"s", "i", "m", "u", "l", "a", "t", "i", "o", "n", "S", "i", "z", "e">>
KeyNested == <<"w", "."  >> \o KeySimulationSize
KeySeed == <<"S", "e", "e", "d">>
KeyValue == <<"V", "a", "l", "u", "e">>

\* str.lower() on the letters of the keys
LowerOf ==
    ("S" :> "s") @@ ("I" :> "i") @@ ("M" :> "m") @@ ("U" :> "u") @@ ("L" :> "l")
        @@ ("A" :> "a") @@ ("T" :> "t") @@ ("O" :> "o") @@ ("N" :> "n")
        @@ ("Z" :> "z") @@ ("E" :> "e") @@ ("V" :> "v") @@ ("X" :> "x")
        @@ ("R" :> "r")

Lower(chars) ==
    [i \in 1..Len(chars) |->
        IF chars[i] \in DOMAIN LowerOf THEN LowerOf[chars[i]] ELSE chars[i]]

\* needle in hay
IsSubstring(needle, hay) ==
    \E i \in 1..(Len(hay) - Len(needle) + 1) :
        SubSeq(hay, i, i + Len(needle) - 1) = needle

\* 'SimulationSize' in key or 'simulationSize' in key.lower()
KeyMatches(key) ==
    \/ IsSubstring(KeySimulationSize, key)
    \/ IsSubstring(KeyCamelCase, Lower(key))

\* float(value) for a JSON value
Float(value) ==
    IF value.t = "num" THEN [val |-> value.v]
    ELSE IF value.t = "bool" THEN [val |-> IF value.v THEN 1 ELSE 0]
    ELSE IF value.t = "str" THEN [exc |-> "ValueError"]
    ELSE [exc |-> "TypeError"]

\* the loop over metadata['settings'].items() with its break: the
\* simulation_size found, none, or the exception of float()
RECURSIVE SettingsLoop(_)
SettingsLoop(items) ==
    IF items = <<>> THEN [none |-> TRUE]
    ELSE LET key == Head(items)[1]
             value == Head(items)[2]
         IN  IF KeyMatches(key)
             THEN IF value.t = "map" /\ KeyValue \in DOMAIN value.v
                  THEN Float(value.v[KeyValue])
                  ELSE IF value.t \in {"num", "bool"} THEN Float(value)
                  ELSE [none |-> TRUE]
             ELSE SettingsLoop(Tail(items))

\* metadata['settings'] of the snapshots modelled, in insertion order
SettingsPool ==
    {<<<<KeySimulationSize, JNum(1000)>>>>,
     <<<<KeySeed, JNum(42)>>, <<KeyNested, JMap(KeyValue :> JNum(500))>>>>,
     <<<<KeyLowerCase, JNum(1000)>>>>,
     <<<<KeyUpperCase, JNum(1000)>>>>,
     <<<<KeySimulationSize, JStr("large")>>, <<KeyNested, JNum(1000)>>>>,
     <<<<KeySimulationSize, JMap(KeyValue :> JStr("large"))>>>>,
     <<<<KeySeed, JNum(42)>>>>,
     <<>>}

\* a snapshot directory as zone resolution sees it: whether the catalogue
\* of autosaves lists its archive, whether the archive opens, and what the
\* metadata scan harvests from it
Snap(catalog, archive, harvest, settings) ==
    [catalog |-> catalog, archive |-> archive, zones |-> harvest,
     settings |-> settings]

Snapshots ==
    {Snap("listed", "readable", h, <<<<KeySimulationSize, JNum(1000)>>>>) :
        h \in HarvestLists}
        \cup {Snap("listed", "readable", h, st) :
                 h \in {<<>>, <<Core, Mid>>}, st \in SettingsPool}
        \cup {Snap(c[1], c[2], <<Core, Mid>>, <<<<KeySimulationSize, JNum(1000)>>>>) :
                 c \in {<<"unlisted", "readable">>, <<"unavailable", "readable">>,
                        <<"listed", "corrupt">>}}

\* get_zip_file_from_data_path: the archive whose stem is the directory
\* name, BibitesDataError when the catalogue does not list it or cannot be
\* read (SaveExtractionError)
\* Mutant: None is returned when no archive matches.
get_zip_file_from_data_path_ReturnsNone(snap) ==
    IF snap.catalog = "listed" THEN [val |-> "zip"]
    ELSE [val |-> NoName]

get_zip_file_from_data_path(snap) ==
    IF snap.catalog = "listed" THEN [val |-> "zip"]
    ELSE [exc |-> "BibitesDataError"]

\* extract_metadata_from_save: the harvest, MetadataExtractionError when the
\* archive cannot be opened
extract_metadata_from_save(snap) ==
    IF snap.archive = "readable"
    THEN [val |-> [zones |-> snap.zones, settings |-> snap.settings]]
    ELSE [exc |-> "MetadataExtractionError"]

\* Mutant: the exception leaves the function.
OnException_Reraise(outcome, fallback) == outcome

\* except Exception as e: return <fallback>
OnException(outcome, fallback) ==
    IF Raised(outcome) THEN [val |-> fallback] ELSE outcome

\* the try block of parse_zone_configuration
ParseZonesBody(snap) ==
    LET zip_file == get_zip_file_from_data_path(snap)
        metadata == extract_metadata_from_save(snap)
    IN  IF Raised(zip_file) THEN [exc |-> zip_file.exc, zones |-> <<>>]
        ELSE IF zip_file.val = NoName THEN [val |-> <<>>]
        ELSE IF Raised(metadata) THEN [exc |-> metadata.exc, zones |-> <<>>]
        ELSE FilterLoop(metadata.val.zones, <<>>)

parse_zone_configuration(snap) ==
    LET body == ParseZonesBody(snap)
    IN  OnException(body, IF Raised(body) THEN body.zones ELSE <<>>)

\* the try block of extract_world_radius
WorldRadiusBody(snap) ==
    LET zip_file == get_zip_file_from_data_path(snap)
        metadata == extract_metadata_from_save(snap)
    IN  IF Raised(zip_file) THEN zip_file
        ELSE IF zip_file.val = NoName THEN [val |-> DefaultRadiusNoArchive]
        ELSE IF Raised(metadata) THEN metadata
        ELSE LET simulation_size == SettingsLoop(metadata.val.settings)
             IN  IF Raised(simulation_size) THEN simulation_size
                 ELSE IF "none" \in DOMAIN simulation_size
                 THEN [val |-> DefaultRadiusNoSetting]
                 ELSE simulation_size

extract_world_radius(snap) == OnException(WorldRadiusBody(snap), DefaultRadiusOnError)

\* the field names of an organism record and position_fields
rb2d == <<"r", "b", "2", "d">>
genes == <<"g", "e", "n", "e", "s">>
px == <<"p", "x">>
py == <<"p", "y">>
tag == <<"t", "a", "g">>

Dotted(outer, inner) == outer \o <<".">> \o inner

position_fields == <<Dotted(rb2d, px), Dotted(rb2d, py), Dotted(genes, tag)>>

\* an organism file: the record load_bb8_file parses (coordinates are
\* numbers, as the simulation writes them; a field may be absent or null),
\* or a file load_bb8_file raises BB8ParseError on
Unparsable == [t |-> "unparsable"]

OrganismPoints == {<<0, 0>>, <<400, 0>>, <<2000, 0>>}

Body(x, y) == JMap(px :> JNum(x) @@ py :> JNum(y))

Organisms ==
    {JMap(rb2d :> Body(p[1], p[2]) @@ genes :> JMap(tag :> JStr("herb"))) :
        p \in OrganismPoints}
        \cup {JMap(rb2d :> Body(0, 0)),
              JMap(rb2d :> Body(400, 0) @@ genes :> JMap(tag :> JNull)),
              JMap(rb2d :> Body(2000, 0) @@ genes :> JMap(px :> JNum(1)))}
        \cup {JMap(rb2d :> JMap(px :> JNum(400))
                   @@ genes :> JMap(tag :> JStr("herb"))),
              JMap(rb2d :> JMap(px :> JNull @@ py :> JNum(0)))}

FilePool == Organisms \cup {Unparsable}

Bump(counts, key) ==
    IF key \in DOMAIN counts THEN [counts EXCEPT ![key] = @ + 1]
    ELSE counts @@ (key :> 1)

\* Mutant: the count of a species already seen is set to 1 in the zone.
Bump2_SetToOne(table, k1, k2) ==
    IF k1 \in DOMAIN table
    THEN [table EXCEPT ![k1] = [q \in DOMAIN @ \cup {k2} |->
                                   IF q = k2 THEN 1 ELSE @[q]]]
    ELSE table @@ (k1 :> (k2 :> 1))

Bump2(table, k1, k2) ==
    IF k1 \in DOMAIN table THEN [table EXCEPT ![k1] = Bump(@, k2)]
    ELSE table @@ (k1 :> (k2 :> 1))

AppendTo(table, k1, k2, entry) ==
    IF k1 \notin DOMAIN table THEN table @@ (k1 :> (k2 :> <<entry>>))
    ELSE IF k2 \notin DOMAIN table[k1]
    THEN [table EXCEPT ![k1] = @ @@ (k2 :> <<entry>>)]
    ELSE [table EXCEPT ![k1][k2] = Append(@, entry)]

RECURSIVE SumValues(_, _)
SumValues(counts, keys) ==
    IF keys = {} THEN 0
    ELSE LET k == CHOOSE k \in keys : TRUE
         IN  counts[k] + SumValues(counts, keys \ {k})

Init ==
    /\ zones = <<>>
    /\ world_radius = 0
    /\ pc = "start"
    /\ remaining = 0
    /\ zone_species_data = <<>>
    /\ zone_totals = <<>>
    /\ species_zone_data = <<>>
    /\ errors = <<>>
    /\ total_organisms = 0
    /\ last = <<>>
    /\ snapshot = <<>>
    /\ bb8_files = <<>>
    /\ field_paths = <<>>
    /\ results = <<>>
    /\ file_info = <<>>
    /\ json_data = <<>>
    /\ calls = 0
    /\ compared = <<>>
    /\ resolved = <<>>
    /\ data_dirs = <<>>
    /\ autosave_files = <<>>
    /\ analysis_summary = <<>>

\* glob('*.bb8') and the early return on an empty directory
Start ==
    /\ pc = "start"
    /\ \E n \in 0..MaxFiles :
           IF n = 0
           THEN /\ pc' = "nodata"
                /\ UNCHANGED <<remaining, snapshot>>
           ELSE /\ snapshot' \in Snapshots
                /\ remaining' = n
                /\ pc' = "resolve"
    /\ UNCHANGED <<file_info, json_data, cliVars, analysis_summary,
                   zones, world_radius, zone_species_data, zone_totals,
                   species_zone_data, errors, total_organisms, last,
                   bb8_files, field_paths, results>>

\* zones = parse_zone_configuration(input_path) and
\* world_radius = extract_world_radius(input_path)
Resolve ==
    /\ pc = "resolve"
    /\ \E found_zones \in {parse_zone_configuration(snapshot)},
          found_radius \in {extract_world_radius(snapshot)} :
           IF Raised(found_zones) \/ Raised(found_radius)
           THEN /\ pc' = "raised"
                /\ UNCHANGED <<zones, world_radius>>
           ELSE /\ zones' = found_zones.val
                /\ world_radius' = found_radius.val
                /\ pc' = "resolved"
    /\ UNCHANGED <<file_info, json_data, cliVars, analysis_summary,
                   remaining, zone_species_data, zone_totals,
                   species_zone_data, errors, total_organisms, last, snapshot,
                   bb8_files, field_paths, results>>

\* the zone boundaries are printed and the aggregates start empty; the
\* metadata of the archive is not looked at again
BeginLoop ==
    /\ pc = "resolved"
    /\ pc' = "loop"
    /\ snapshot' = <<>>
    /\ zone_species_data' = <<>>
    /\ zone_totals' = <<>>
    /\ species_zone_data' = <<>>
    /\ errors' = <<>>
    /\ UNCHANGED <<file_info, json_data, cliVars, analysis_summary,
                   zones, world_radius, remaining, total_organisms, last,
                   bb8_files, field_paths, results>>

\* Mutant: the coordinates are tested for truth, 0 counts as missing.
HasPosition_Truthy(extracted) ==
    /\ extracted[Dotted(rb2d, px)] \notin {JNull, JNum(0)}
    /\ extracted[Dotted(rb2d, py)] \notin {JNull, JNum(0)}

\* x is not None and y is not None
HasPosition(extracted) ==
    /\ extracted[Dotted(rb2d, px)] # JNull
    /\ extracted[Dotted(rb2d, py)] # JNull

\* Mutant: a missing tag keeps the default of extracted.get.
SpeciesOf_Unknown(extracted) ==
    IF extracted[Dotted(genes, tag)] = JNull THEN "unknown"
    ELSE extracted[Dotted(genes, tag)].v

\* species = extracted.get('genes.tag', 'unknown'), None replaced by 'None'
SpeciesOf(extracted) ==
    LET species == IF Dotted(genes, tag) \in DOMAIN extracted
                   THEN extracted[Dotted(genes, tag)]
                   ELSE JStr("unknown")
    IN  IF species = JNull THEN "None" ELSE species.v

\* zone = classify_zone_concentric(x, y, zones, world_radius) if zones else "Unknown"
ZoneOf(extracted, zs, R) ==
    IF zs # <<>>
    THEN classify_zone_concentric(extracted[Dotted(rb2d, px)].v,
                                  extracted[Dotted(rb2d, py)].v, zs, R)
    ELSE "Unknown"

Entry(extracted, file) ==
    [file |-> file, x |-> extracted[Dotted(rb2d, px)].v,
     y |-> extracted[Dotted(rb2d, py)].v,
     distance |-> calculate_distance_from_center(
                      extracted[Dotted(rb2d, px)].v,
                      extracted[Dotted(rb2d, py)].v)]

\* Mutant: the error list is overwritten with the last error.
RecordError_Overwrite(errs, name) == <<name>>

\* except BB8ParseError as e: errors.append(f"{file_path.name}: {e}")
RecordError(errs, name) == Append(errs, name)

\* one iteration of the loop over bb8_files; a file is named by the number
\* of files left when the loop reaches it
ProcessFile ==
    /\ pc = "loop"
    /\ remaining > 0
    /\ remaining' = remaining - 1
    /\ \E f \in FilePool :
           /\ bb8_files' = Append(bb8_files, f)
           /\ \/ /\ f = Unparsable
                 /\ errors' = RecordError(errors, remaining)
                 /\ UNCHANGED <<zone_species_data, zone_totals,
                                species_zone_data, last, pc, zones>>
              \/ /\ f # Unparsable
                 /\ \E found \in {extract_multiple_fields(f, position_fields)} :
                        IF Raised(found)
                        THEN /\ pc' = "raised"
                             /\ UNCHANGED <<zone_species_data, zone_totals,
                                            species_zone_data, last, errors,
                                            zones>>
                        ELSE \E extracted \in {found.val} :
                          \/ /\ HasPosition(extracted)
                             /\ \E zone \in {ZoneOf(extracted, zones, world_radius)} :
                                    /\ zone_species_data' =
                                           AppendTo(zone_species_data, zone,
                                                    SpeciesOf(extracted),
                                                    Entry(extracted, remaining))
                                    /\ zone_totals' = Bump(zone_totals, zone)
                                    /\ species_zone_data' =
                                           Bump2(species_zone_data,
                                                 SpeciesOf(extracted), zone)
                                    /\ last' = <<[x |-> extracted[Dotted(rb2d, px)].v,
                                                  y |-> extracted[Dotted(rb2d, py)].v,
                                                  zone |-> zone]>>
                             /\ zones' = ZonesAfterClassify(zones, world_radius)
                             /\ UNCHANGED <<errors, pc>>
                          \/ /\ ~HasPosition(extracted)
                             /\ UNCHANGED <<zone_species_data, zone_totals,
                                            species_zone_data, errors, last, pc,
                                            zones>>
    /\ UNCHANGED <<file_info, json_data, cliVars, analysis_summary,
                   world_radius, total_organisms, snapshot,
                   field_paths, results>>

\* species after "for species, organisms in species_data.items()": the key
\* inserted last, that is the species whose first organism was read last
\* (files are named by the number of files left)
LastSpecies(species_data) ==
    CHOOSE sp \in DOMAIN species_data :
        \A q \in DOMAIN species_data :
            Head(species_data[sp]).file <= Head(species_data[q]).file

\* distances = [organism['distance'] for organism in species_data[species]
\*              for species in species_data]: the outer iterable is
\* species_data[species] for the species the loop above left, each of its
\* distances once per species of the zone; kept as the set of its values
Distances(species_data) ==
    {species_data[LastSpecies(species_data)][k].distance :
        k \in 1..Len(species_data[LastSpecies(species_data)])}

\* min(distances), max(distances); a distance is kept as its square
MinOf(ds) == CHOOSE d \in ds : \A e \in ds : RLe(d, e)
MaxOf(ds) == CHOOSE d \in ds : \A e \in ds : RLe(e, d)

\* analysis_summary['radial_analysis']['zone_distance_ranges']
zone_distance_ranges(zsd) ==
    [zone \in DOMAIN zsd |->
        [min_distance |-> MinOf(Distances(zsd[zone])),
         max_distance |-> MaxOf(Distances(zsd[zone]))]]

\* after the loop: total_organisms = sum(zone_totals.values()) and the
\* report; of the report the radial statistics of the zones are kept, the
\* means, which need the roots, are left out
Finish ==
    /\ pc = "loop"
    /\ remaining = 0
    /\ total_organisms' = SumValues(zone_totals, DOMAIN zone_totals)
    /\ analysis_summary' =
           [radial_analysis |->
               [zone_distance_ranges |-> zone_distance_ranges(zone_species_data)]]
    /\ pc' = "done"
    /\ UNCHANGED <<file_info, json_data, cliVars, zones, world_radius, remaining, zone_species_data,
                   zone_totals, species_zone_data, errors, last, snapshot,
                   bb8_files, field_paths, results>>

(***************************************************************************)
(* process_batch_files of src/src/tools/lib/field_extraction.py: the       *)
(* requested fields of every organism file of a directory.                 *)
(***************************************************************************)
ka == <<"a">>
kb == <<"b">>
kab == <<"a", "b">>
FileKey == <<"_", "f", "i", "l", "e">>

\* {"a": {"b": 1}}, {"a": [{"b": 1}]}
RecNested == JMap(ka :> JMap(kb :> JNum(1)))
RecList == JMap(ka :> JList(<<JMap(kb :> JNum(1))>>))

BatchPool == {RecNested, RecList, Unparsable}

BatchPaths == {<<Dotted(ka, kb)>>, <<ka, Dotted(ka, kb), ka>>}

\* glob('*.bb8'), ValueError on an empty directory
BatchStart ==
    /\ pc = "start"
    /\ \E n \in 0..MaxFiles :
           IF n = 0
           THEN /\ pc' = "ValueError"
                /\ UNCHANGED <<remaining, field_paths>>
           ELSE /\ field_paths' \in BatchPaths
                /\ remaining' = n
                /\ pc' = "batch"
    /\ UNCHANGED <<file_info, json_data, cliVars, analysis_summary,
                   zones, world_radius, zone_species_data, zone_totals,
                   species_zone_data, errors, total_organisms, last, snapshot,
                   bb8_files, results>>

\* one iteration of the loop of process_batch_files
BatchFile ==
    /\ pc = "batch"
    /\ remaining > 0
    /\ remaining' = remaining - 1
    /\ \E f \in BatchPool :
           /\ bb8_files' = Append(bb8_files, f)
           /\ \/ /\ f = Unparsable
                 /\ errors' = RecordError(errors, remaining)
                 /\ UNCHANGED <<results, pc>>
              \/ /\ f # Unparsable
                 /\ \E found \in {extract_multiple_fields(f, field_paths)} :
                        IF Raised(found)
                        THEN pc' = "raised" /\ UNCHANGED results
                        ELSE /\ results' =
                                    Append(results,
                                           SetItem(found.val, FileKey, remaining))
                             /\ UNCHANGED pc
                 /\ UNCHANGED errors
    /\ UNCHANGED <<file_info, json_data, cliVars, analysis_summary,
                   zones, world_radius, zone_species_data, zone_totals,
                   species_zone_data, total_organisms, last, snapshot,
                   field_paths>>

\* return results, errors
BatchReturn ==
    /\ pc = "batch"
    /\ remaining = 0
    /\ pc' = "returned"
    /\ UNCHANGED <<file_info, json_data, cliVars, analysis_summary,
                   zones, world_radius, remaining, zone_species_data,
                   zone_totals, species_zone_data, errors, total_organisms,
                   last, snapshot, bb8_files, field_paths, results>>

Next ==
    \/ Start \/ Resolve \/ BeginLoop \/ ProcessFile \/ Finish
    \/ BatchStart \/ BatchFile \/ BatchReturn

Spec == Init /\ [][Next]_vars

(***************************************************************************)
(* process_single_file of src/src/tools/lib/field_extraction.py called on  *)
(* its own: one file, a list of dotted paths.  orjson.loads returns any    *)
(* JSON value, so the record is a map, a list, a string or a number.       *)
(***************************************************************************)
MaxPaths == 2

kempty == <<>>
kzero == <<"0">>
kdot == <<".">>

\* {"a": "s", "b": null}, {"a": {"b": {"a": true}}, "": 7},
\* {"a": {"": 3, "b": null}}, {"a": 5, "ab": 2}
RecScalars == JMap(ka :> JStr("s") @@ kb :> JNull)
RecDeep == JMap(ka :> JMap(kb :> JMap(ka :> JBool(TRUE))) @@ kempty :> JNum(7))
RecEmptyKey == JMap(ka :> JMap(kempty :> JNum(3) @@ kb :> JNull))
RecSiblings == JMap(ka :> JNum(5) @@ kab :> JNum(2))

RecordPool ==
    {RecNested, RecList, RecScalars, RecDeep, RecEmptyKey, RecSiblings,
     JList(<<RecNested>>), JStr("a"), JNum(5)}

\* "", "a", "b", "ab", "a.b", "a.b.a", "a.", ".", "a.0"
PathPool ==
    {kempty, ka, kb, kab, Dotted(ka, kb), Dotted(Dotted(ka, kb), ka),
     ka \o kdot, kdot, Dotted(ka, kzero)}

InitExtract ==
    /\ zones = <<>>
    /\ world_radius = 0
    /\ pc = "single"
    /\ remaining = 0
    /\ zone_species_data = <<>>
    /\ zone_totals = <<>>
    /\ species_zone_data = <<>>
    /\ errors = <<>>
    /\ total_organisms = 0
    /\ last = <<>>
    /\ snapshot = <<>>
    /\ bb8_files \in {<<f>> : f \in RecordPool \cup {Unparsable}}
    /\ field_paths \in SeqsUpTo(PathPool, MaxPaths)
    /\ results = <<>>
    /\ file_info = <<>>
    /\ json_data = <<>>
    /\ calls = 0
    /\ compared = <<>>
    /\ resolved = <<>>
    /\ data_dirs = <<>>
    /\ autosave_files = <<>>
    /\ analysis_summary = <<>>

\* load_bb8_file, then extract_multiple_fields; BB8ParseError is re-raised
ProcessSingle ==
    /\ pc = "single"
    /\ IF bb8_files[1] = Unparsable
       THEN pc' = "BB8ParseError" /\ UNCHANGED results
       ELSE \E found \in {extract_multiple_fields(bb8_files[1], field_paths)} :
                IF Raised(found)
                THEN pc' = "raised" /\ UNCHANGED results
                ELSE pc' = "single_returned" /\ results' = <<found.val>>
    /\ UNCHANGED <<file_info, json_data, cliVars, analysis_summary,
                   zones, world_radius, remaining, zone_species_data,
                   zone_totals, species_zone_data, errors, total_organisms,
                   last, snapshot, bb8_files, field_paths>>

NextExtract == ProcessSingle

SpecExtract == InitExtract /\ [][NextExtract]_vars

(***************************************************************************)
(* _classify_zone of src/src/tools/extract_data.py, the classifier of the  *)
(* legacy island layout, called on its own.                                *)
(***************************************************************************)
VoidLimit == 14000
IslandLimit == 5000
EasternLimit == 7000

\* Mutant: the void starts at the limit itself.
_classify_zone_VoidFromLimit(x, y) ==
    IF Abs(x) >= VoidLimit \/ Abs(y) >= VoidLimit THEN "Void"
    ELSE IF y > IslandLimit THEN "Northern Island"
    ELSE IF y < 0 - IslandLimit THEN "Southern Island"
    ELSE IF x > EasternLimit THEN "Eastern Island"
    ELSE "Central/Western"

_classify_zone(x, y) ==
    IF Abs(x) > VoidLimit \/ Abs(y) > VoidLimit THEN "Void"
    ELSE IF y > IslandLimit THEN "Northern Island"
    ELSE IF y < 0 - IslandLimit THEN "Southern Island"
    ELSE IF x > EasternLimit THEN "Eastern Island"
    ELSE "Central/Western"

\* coordinates at, just inside and just outside every threshold
LegacyAxis ==
    {0 - VoidLimit - 1, 0 - VoidLimit, 0 - EasternLimit, 0 - IslandLimit - 1,
     0 - IslandLimit, 0, IslandLimit, IslandLimit + 1, EasternLimit,
     EasternLimit + 1, VoidLimit, VoidLimit + 1}

InitLegacy ==
    /\ zones = <<>>
    /\ world_radius = 0
    /\ pc = "legacy"
    /\ remaining = 0
    /\ zone_species_data = <<>>
    /\ zone_totals = <<>>
    /\ species_zone_data = <<>>
    /\ errors = <<>>
    /\ total_organisms = 0
    /\ last = <<>>
    /\ snapshot = <<>>
    /\ bb8_files = <<>>
    /\ field_paths = <<>>
    /\ results = <<>>
    /\ file_info = <<>>
    /\ json_data = <<>>
    /\ calls = 0
    /\ compared = <<>>
    /\ resolved = <<>>
    /\ data_dirs = <<>>
    /\ autosave_files = <<>>
    /\ analysis_summary = <<>>

\* one call _classify_zone(x, y)
LegacyClassify ==
    /\ pc = "legacy"
    /\ \E x \in LegacyAxis, y \in LegacyAxis :
           last' = <<[x |-> x, y |-> y, zone |-> _classify_zone(x, y)]>>
    /\ pc' = "legacy_done"
    /\ UNCHANGED <<file_info, json_data, cliVars, analysis_summary,
                   zones, world_radius, remaining,
                   zone_species_data, zone_totals, species_zone_data, errors,
                   total_organisms, snapshot, bb8_files, field_paths, results>>

NextLegacy == LegacyClassify

SpecLegacy == InitLegacy /\ [][NextLegacy]_vars

(***************************************************************************)
(* Data selection of src/src/tools/bibites.py and its data access layer    *)
(* src/src/tools/extract_save.py: the autosave directory, the data/        *)
(* directory, resolve_data_paths and run_comparison_analysis.  An autosave *)
(* is named by its timestamp (autosave_<timestamp>.zip, fixed width), a    *)
(* number here; its archive holds organism files, images only, or is       *)
(* corrupt.  The --name selection is left out (find_save_by_name).         *)
(***************************************************************************)
SaveNames == 1..MaxSaves

ArchiveKinds == {"organisms", "images", "corrupt"}

\* list.sort(key=lambda x: x.name): ascending names
RECURSIVE SortedNames(_)
SortedNames(S) ==
    IF S = {} THEN <<>>
    ELSE LET least == CHOOSE a \in S : \A b \in S : a <= b
         IN  <<least>> \o SortedNames(S \ {least})

\* SaveExtractionError when the directory is missing or holds no autosave
get_all_autosaves(files) ==
    IF DOMAIN files = {} THEN [exc |-> "SaveExtractionError"]
    ELSE [val |-> SortedNames(DOMAIN files)]

find_latest_autosave(files) ==
    LET autosaves == get_all_autosaves(files)
    IN  IF Raised(autosaves) THEN autosaves
        ELSE [val |-> autosaves.val[Len(autosaves.val)]]

\* Mutant: the newest autosave comes first.
find_last_n_autosaves_NewestFirst(files, n) ==
    LET autosaves == get_all_autosaves(files)
    IN  IF Raised(autosaves) THEN autosaves
        ELSE LET all == autosaves.val
                 k == IF n > Len(all) THEN Len(all) ELSE n
             IN  [val |-> [i \in 1..k |-> all[Len(all) + 1 - i]]]

\* autosaves if n > len(autosaves), else autosaves[-n:]
find_last_n_autosaves(files, n) ==
    LET autosaves == get_all_autosaves(files)
    IN  IF Raised(autosaves) THEN autosaves
        ELSE IF n > Len(autosaves.val) THEN autosaves
        ELSE [val |-> SubSeq(autosaves.val, Len(autosaves.val) - n + 1,
                             Len(autosaves.val))]

\* DATA_OUTPUT_PATH / zip_path.stem
get_output_directory(zip_file) == <<"data", zip_file>>

\* Mutant: an existing directory counts as cached.
is_directory_cached_IfExists(dirs, output_dir) == dirs[output_dir[2]] # "absent"

\* the directory exists and rglob('*.bb8') finds a file
is_directory_cached(dirs, output_dir) == dirs[output_dir[2]] = "bb8"

\* extract_save_files: the directories are made before the archive is
\* opened; a corrupt archive raises SaveExtractionError; files already in
\* the directory stay
extract_save_files(files, dirs, zip_file) ==
    LET made == [dirs EXCEPT ![zip_file] = IF @ = "absent" THEN "empty" ELSE @]
    IN  IF files[zip_file] = "corrupt"
        THEN [exc |-> "SaveExtractionError", dirs |-> made]
        ELSE IF files[zip_file] = "images" THEN [val |-> "stats", dirs |-> made]
        ELSE [val |-> "stats", dirs |-> [dirs EXCEPT ![zip_file] = "bb8"]]

\* the loop "for zip_file in zip_files" of resolve_data_paths
RECURSIVE ExtractionLoop(_, _, _, _, _, _)
ExtractionLoop(zip_files, overwrite, files, dirs, output_paths, attempted) ==
    IF zip_files = <<>>
    THEN [val |-> output_paths, dirs |-> dirs, attempted |-> attempted,
          reached |-> output_paths]
    ELSE LET zip_file == Head(zip_files)
             output_dir == get_output_directory(zip_file)
             paths == Append(output_paths, output_dir)
         IN  IF ~overwrite /\ is_directory_cached(dirs, output_dir)
             THEN ExtractionLoop(Tail(zip_files), overwrite, files, dirs, paths,
                                 attempted)
             ELSE LET stats == extract_save_files(files, dirs, zip_file)
                  IN  IF Raised(stats)
                      THEN [exc |-> "BibitesToolError", dirs |-> stats.dirs,
                            attempted |-> Append(attempted, zip_file),
                            reached |-> paths]
                      ELSE ExtractionLoop(Tail(zip_files), overwrite, files,
                                          stats.dirs, paths,
                                          Append(attempted, zip_file))

\* the selection of the saves: --latest or --last n
SelectSaves(files, latest, last_n) ==
    IF latest
    THEN LET found == find_latest_autosave(files)
         IN  IF Raised(found) THEN [exc |-> "BibitesToolError"]
             ELSE [val |-> <<found.val>>]
    ELSE IF last_n <= 0 THEN [exc |-> "BibitesToolError"]
    ELSE LET found == find_last_n_autosaves(files, last_n)
         IN  IF Raised(found) THEN [exc |-> "BibitesToolError"] ELSE found

resolve_data_paths(files, dirs, latest, last_n, overwrite) ==
    LET zip_files == SelectSaves(files, latest, last_n)
    IN  IF Raised(zip_files)
        THEN [exc |-> zip_files.exc, dirs |-> dirs, attempted |-> <<>>,
              reached |-> <<>>, zip_files |-> <<>>]
        ELSE LET done == ExtractionLoop(zip_files.val, overwrite, files, dirs,
                                        <<>>, <<>>)
             IN  [k \in DOMAIN done \cup {"zip_files"} |->
                     IF k = "zip_files" THEN zip_files.val ELSE done[k]]

Selections ==
    {[latest |-> TRUE, last |-> 0]}
        \cup {[latest |-> FALSE, last |-> n] : n \in 0..(MaxSaves + 1)}

InitResolve ==
    /\ zones = <<>>
    /\ world_radius = 0
    /\ pc = "cli"
    /\ remaining = 0
    /\ zone_species_data = <<>>
    /\ zone_totals = <<>>
    /\ species_zone_data = <<>>
    /\ errors = <<>>
    /\ total_organisms = 0
    /\ last = <<>>
    /\ snapshot = <<>>
    /\ bb8_files = <<>>
    /\ field_paths = <<>>
    /\ results = <<>>
    /\ file_info = <<>>
    /\ json_data = <<>>
    /\ analysis_summary = <<>>
    /\ autosave_files \in UNION {[S -> ArchiveKinds] : S \in SUBSET SaveNames}
    /\ data_dirs = [s \in SaveNames |-> "absent"]
    /\ resolved = <<>>
    /\ compared = <<>>
    /\ calls = 0

\* one run of the tool up to the return of resolve_data_paths
ResolveCall ==
    /\ pc = "cli"
    /\ calls < MaxCalls
    /\ calls' = calls + 1
    /\ \E selection \in Selections, overwrite \in BOOLEAN :
           \E done \in {resolve_data_paths(autosave_files, data_dirs,
                                           selection.latest, selection.last,
                                           overwrite)} :
               /\ data_dirs' = done.dirs
               /\ resolved' = <<[latest |-> selection.latest,
                                 last |-> selection.last,
                                 overwrite |-> overwrite,
                                 before |-> data_dirs,
                                 zip_files |-> done.zip_files,
                                 reached |-> done.reached,
                                 attempted |-> done.attempted,
                                 returned |-> ~Raised(done),
                                 data_paths |-> IF Raised(done) THEN <<>>
                                                ELSE done.val]>>
    /\ compared' = <<>>
    /\ UNCHANGED <<file_info, json_data, autosave_files, analysis_summary, zones, world_radius, pc,
                   remaining, zone_species_data, zone_totals,
                   species_zone_data, errors, total_organisms, last, snapshot,
                   bb8_files, field_paths, results>>

\* run_comparison_analysis(data_paths, output) on the paths just resolved
RunComparison ==
    /\ pc = "cli"
    /\ resolved # <<>>
    /\ resolved[1].returned
    /\ compared = <<>>
    /\ \E data_paths \in {resolved[1].data_paths} :
           compared' =
               IF Len(data_paths) # 2 THEN <<[exc |-> "BibitesToolError"]>>
               ELSE IF \E i \in 1..2 : data_dirs[data_paths[i][2]] = "absent"
               THEN <<[exc |-> "BibitesToolError"]>>
               ELSE <<[cycle_a |-> data_paths[1], cycle_b |-> data_paths[2]]>>
    /\ UNCHANGED <<file_info, json_data, calls, resolved, data_dirs, autosave_files,
                   analysis_summary, zones, world_radius, pc, remaining,
                   zone_species_data, zone_totals, species_zone_data, errors,
                   total_organisms, last, snapshot, bb8_files, field_paths,
                   results>>

NextResolve == ResolveCall \/ RunComparison

SpecResolve == InitResolve /\ [][NextResolve]_vars

(***************************************************************************)
(* The zone geometry as the specification states it, and the last          *)
(* classification made, for the properties below.                          *)
(***************************************************************************)
Called == Len(last) = 1
LX == last[1].x
LY == last[1].y
LZone == last[1].zone

ZoneName(i) == ZGet(zones[i], "name", "Unknown")
ZoneNames == {ZoneName(i) : i \in 1..Len(zones)}

SpecField(z, key, R) ==
    IF ZGet(z, "radiusIsRelative", TRUE) THEN ZGet(z, key, Zero)
    ELSE RDivInt(ZGet(z, key, Zero), R)

SpecDistribution(z) ==
    IF ZGet(z, "name", "Unknown") = "AntiPred" /\ ZGet(z, "distribution", "") = "Flat"
    THEN "CentricGradual"
    ELSE ZGet(z, "distribution", "")

AtOrigin(z) == ZGet(z, "posX", Zero) = Zero /\ ZGet(z, "posY", Zero) = Zero

IsPositioned(z) == SpecDistribution(z) = "Flat" /\ ~AtOrigin(z)

CentreDistanceSq(z, x, y, R) ==
    RAdd(RSq(RSub(Rat(x, R), SpecField(z, "posX", R))),
         RSq(RSub(Rat(y, R), SpecField(z, "posY", R))))

InsidePositioned(z, x, y, R) ==
    /\ IsPositioned(z)
    /\ SqrtLe(CentreDistanceSq(z, x, y, R), SpecField(z, "radius", R))

\* the positioned zones that contain the last point
PosIdx == {i \in 1..Len(zones) : InsidePositioned(zones[i], LX, LY, world_radius)}

\* the concentric candidates of the list, and those whose interval contains
\* the relative distance of the last point
Cand(i) == ZoneCandidate(zones[i], LX, LY, world_radius)
DSq == RelativeDistanceSq(LX, LY, world_radius)
ConAll == {i \in 1..Len(zones) : Cand(i).kind = "concentric"}
ConIdx == {i \in ConAll : Contains(Cand(i), DSq)}

\* the gap between the relative distance d and a candidate's interval, as
\* sign * (bound - d): min_distance - d below it, d - max_distance above it
Gap(i) ==
    IF SqrtLt(DSq, Cand(i).min_distance)
    THEN [sign |-> 1, bound |-> Cand(i).min_distance]
    ELSE [sign |-> -1, bound |-> Cand(i).max_distance]

\* gap g < gap h, that is g.sign * g.bound - h.sign * h.bound < (g.sign - h.sign) * d
GapLess(g, h) ==
    LET k == RSub(RMul(Rat(g.sign, 1), g.bound), RMul(Rat(h.sign, 1), h.bound))
    IN  IF g.sign = h.sign THEN RLt(k, Zero)
        ELSE IF g.sign = 1 THEN LtSqrt(RDivInt(k, 2), DSq)
        ELSE SqrtLt(DSq, RDivInt(RSub(Zero, k), 2))

(***************************************************************************)
(* C1: every classification yields one zone name: the name of a zone of    *)
(* the list, or one of the sentinels "Unknown" and "Beyond".               *)
(***************************************************************************)
C1_ExactlyOneZoneName ==
    Called => LZone \in ZoneNames \cup {"Unknown", "Beyond"}

C1_Witness ==
    /\ Called
    /\ Len(zones) = 2
    /\ PosIdx = {}
    /\ ConAll # {}
    /\ ConIdx = {}
    /\ LZone \in ZoneNames

(***************************************************************************)
(* C2: a point inside a positioned zone and inside the interval of a       *)
(* concentric zone gets the name of a positioned zone that contains it,    *)
(* never the concentric zone's name.                                       *)
(***************************************************************************)
C2_PositionedPriority ==
    (Called /\ PosIdx # {} /\ ConIdx # {})
        => /\ LZone \in {ZoneName(i) : i \in PosIdx}
           /\ LZone \notin {ZoneName(i) : i \in ConIdx}

C2_Witness ==
    /\ Called
    /\ PosIdx # {}
    /\ \E i \in ConIdx : Cand(i).priority = 2
    /\ LZone \in {ZoneName(i) : i \in PosIdx}

(***************************************************************************)
(* C3: when two or more positioned zones contain the point, the zone       *)
(* returned is one whose centre is at the smallest distance from the       *)
(* normalized point, for every order of the zones in the list.             *)
(***************************************************************************)
Closest ==
    {i \in PosIdx : \A j \in PosIdx :
        RLe(CentreDistanceSq(zones[i], LX, LY, world_radius),
            CentreDistanceSq(zones[j], LX, LY, world_radius))}

Reordered(p) == [i \in 1..Len(zones) |-> zones[p[i]]]

Scenario == Called /\ zones = <<Core, Mid>> /\ world_radius = 1000

C4_ScenarioAsClaimed ==
    Scenario => /\ (LX = 0 /\ LY = 0) => LZone = "Core"
                /\ (LX = 400 /\ LY = 0) => LZone = "Mid"
                /\ (LX = 2000 /\ LY = 0) => LZone = "Mid"

C4_ScenarioCoreCoreMid ==
    Scenario => /\ (LX = 0 /\ LY = 0) => LZone = "Core"
                /\ (LX = 400 /\ LY = 0) => LZone = "Core"
                /\ (LX = 2000 /\ LY = 0) => LZone = "Mid"

C4_Witness ==
    /\ Scenario
    /\ pc = "done"
    /\ LX = 400 /\ LY = 0
    /\ LZone = "Core"
    /\ "Mid" \in DOMAIN zone_totals
    /\ total_organisms = 2

(***************************************************************************)
(* C5: when no positioned zone contains the point, there are concentric    *)
(* candidates and none of their intervals contains the relative distance,  *)
(* the zone returned is a concentric zone of minimal gap (min_distance - d *)
(* below the interval, d - max_distance above it).                         *)
(***************************************************************************)
C5_NearestFallback ==
    (Called /\ PosIdx = {} /\ ConAll # {} /\ ConIdx = {})
        => \E i \in ConAll :
               /\ LZone = ZoneName(i)
               /\ \A j \in ConAll : ~GapLess(Gap(j), Gap(i))

C5_Witness ==
    /\ Called /\ PosIdx = {} /\ ConIdx = {}
    /\ \E i, j \in ConAll :
           /\ Gap(i).sign = -1 /\ Gap(j).sign = 1
           /\ GapLess(Gap(j), Gap(i))
           /\ i < j
           /\ LZone = ZoneName(j)

(***************************************************************************)
(* C6: a point whose relative distance lies in a narrow ring and in a      *)
(* wider centre disc that encloses the ring, no positioned zone containing *)
(* it, gets the ring's name.  The code checks every centre disc (priority  *)
(* 1) before any ring (priority 2) and returns the narrowest disc that     *)
(* contains the point; widths only order zones of the same priority.       *)
(***************************************************************************)
IsDisc(i) == SpecDistribution(zones[i]) = "CentricGradual" /\ AtOrigin(zones[i])
IsRing(i) == SpecDistribution(zones[i]) \in {"Ring", "FlatRing"} /\ AtOrigin(zones[i])

Discs == {c \in ConIdx : IsDisc(c)}

ThinRings ==
    {r \in ConIdx : /\ IsRing(r)
                    /\ \E c \in Discs :
                           /\ RLe(Cand(r).max_distance, Cand(c).max_distance)
                           /\ RLt(Width(Cand(r)), Width(Cand(c)))}

C6_ThinRingAsClaimed ==
    (Called /\ PosIdx = {} /\ ThinRings # {})
        => LZone \in {ZoneName(r) : r \in ThinRings}

C6_DiscBeforeRing ==
    (Called /\ PosIdx = {} /\ ThinRings # {})
        => /\ LZone \in {ZoneName(c) : c \in
                  {c \in Discs : \A c2 \in Discs :
                       RLe(Width(Cand(c)), Width(Cand(c2)))}}
           /\ LZone \notin {ZoneName(r) : r \in ThinRings}

C6_Witness ==
    /\ Called /\ PosIdx = {}
    /\ zones = <<Rim, Basin>>
    /\ ThinRings = {1}
    /\ LZone = "Basin"

(***************************************************************************)
(* C7: the ring with insideRadius = 0.9 and radius = 0.5 at the origin is  *)
(* never returned (a second, valid concentric zone of another name being   *)
(* present).  In the code its inside radius is 0.9 * 0.5 = 0.45 < 0.5, a   *)
(* valid annulus [0.45, 0.5]; the ring that is never returned is the one   *)
(* whose computed inside radius is 0.9 against radius 0.5, that is         *)
(* insideRadius = 1.8.                                                     *)
(***************************************************************************)
RingWith(z, inside, radius) ==
    /\ ZGet(z, "distribution", "") \in {"Ring", "FlatRing"}
    /\ AtOrigin(z)
    /\ ZGet(z, "radiusIsRelative", TRUE)
    /\ ZGet(z, "insideRadius", Zero) = inside
    /\ ZGet(z, "radius", Zero) = radius

OtherValidZone(i) == \E j \in ConAll : ZoneName(j) # ZoneName(i)

C7_RingAsClaimed ==
    Called => \A i \in 1..Len(zones) :
                  (RingWith(zones[i], Rat(9, 10), Rat(1, 2)) /\ OtherValidZone(i))
                      => LZone # ZoneName(i)

C7_OvershootingRing ==
    Called => \A i \in 1..Len(zones) :
                  (RingWith(zones[i], Rat(18, 10), Rat(1, 2)) /\ OtherValidZone(i))
                      => LZone # ZoneName(i)

C7_Witness ==
    /\ Called
    /\ zones = <<Old, Core>>
    /\ RingWith(zones[1], Rat(18, 10), Rat(1, 2))
    /\ OtherValidZone(1)
    /\ LX = 2000
    /\ LZone = "Core"

(***************************************************************************)
(* C8: a Ring/FlatRing zone at the origin whose computed inside radius     *)
(* (insideRadius * radius) is at least its radius contributes nothing: the *)
(* result is the one obtained with that zone removed from the list.        *)
(***************************************************************************)
InvalidRing(z, R) ==
    /\ ZGet(z, "distribution", "") \in {"Ring", "FlatRing"}
    /\ AtOrigin(z)
    /\ RLe(SpecField(z, "radius", R),
           RMul(SpecField(z, "insideRadius", R), SpecField(z, "radius", R)))

Without(zs, i) == SubSeq(zs, 1, i - 1) \o SubSeq(zs, i + 1, Len(zs))

IsAntiPred(z) ==
    /\ ZGet(z, "name", "Unknown") = "AntiPred"
    /\ ZGet(z, "distribution", "") = "Flat"
    /\ AtOrigin(z)
    /\ ZGet(z, "radius", Zero) = Rat(1, 2)

AsCentricGradual(zs, i) ==
    [zs EXCEPT ![i] = [@ EXCEPT !.distribution = "CentricGradual"]]

C9_AntiPredWorkaround ==
    Called => \A i \in 1..Len(zones) :
                  IsAntiPred(zones[i])
                      => /\ LZone = classify_zone_concentric(
                                        LX, LY, AsCentricGradual(zones, i),
                                        world_radius)
                         /\ i \notin PosIdx
                         /\ (PosIdx = {} /\ Discs \subseteq {i} /\ SqrtLe(DSq, Rat(1, 2)))
                                => LZone = "AntiPred"

C9_Witness ==
    /\ Called
    /\ zones = <<Mid, AntiPred>>
    /\ IsAntiPred(zones[2])
    /\ DSq = RSq(Rat(1, 2))
    /\ LZone = "AntiPred"

(***************************************************************************)
(* C10: the classifier returns "Unknown" for an empty zone list and when   *)
(* no positioned zone contains the point and the list has no concentric    *)
(* candidate; a run whose zone resolution gave an empty list counts every  *)
(* organism that has both coordinates under "Unknown" and goes on.         *)
(***************************************************************************)
RECURSIVE EntryCount(_, _)
EntryCount(bySpecies, keys) ==
    IF keys = {} THEN 0
    ELSE LET k == CHOOSE k \in keys : TRUE
         IN  Len(bySpecies[k]) + EntryCount(bySpecies, keys \ {k})

C10_UnknownSentinel ==
    /\ \A p \in PointSet, R \in WorldRadii :
           classify_zone_concentric(p[1], p[2], <<>>, R) = "Unknown"
    /\ (Called /\ zones # <<>> /\ PosIdx = {} /\ ConAll = {}) => LZone = "Unknown"
    /\ (zones = <<>> /\ pc \in {"loop", "done"})
           => /\ DOMAIN zone_totals \subseteq {"Unknown"}
              /\ Called => /\ LZone = "Unknown"
                           /\ zone_totals["Unknown"] =
                                  EntryCount(zone_species_data["Unknown"],
                                             DOMAIN zone_species_data["Unknown"])
              /\ pc = "loop" => ENABLED Next

C10_Witness ==
    /\ pc = "done"
    /\ zones = <<>>
    /\ Called
    /\ DOMAIN zone_totals = {"Unknown"}
    /\ zone_totals["Unknown"] = 2
    /\ total_organisms = 2

C10_WitnessNoCandidate ==
    /\ Called /\ zones = <<Fog>> /\ LZone = "Unknown"

(***************************************************************************)
(* C11: with one centre disc covering [0, 0.3] and one ring covering       *)
(* [0.3, 0.7] as the only zones, a point at relative distance d in         *)
(* [0, 0.7] (0.3 included) gets one of the two names, that of a zone whose *)
(* interval contains d; a point with d > 0.7 gets the name of the nearest  *)
(* of the two, the ring, never "Unknown".                                  *)
(***************************************************************************)
CoverageConfig == zones \in {<<Core, Belt>>, <<Belt, Core>>}

\* d * d for the relative distance d of the last point
LastDistanceSq == Rat(LX * LX + LY * LY, world_radius * world_radius)

C11_TotalCoverage ==
    (Called /\ CoverageConfig)
        => /\ LZone \in {"Core", "Belt"}
           /\ LZone = "Core" => RLe(LastDistanceSq, RSq(Rat(3, 10)))
           /\ (LZone = "Belt" /\ RLe(LastDistanceSq, RSq(Rat(7, 10))))
                  => RLe(RSq(Rat(3, 10)), LastDistanceSq)
           /\ RLt(RSq(Rat(7, 10)), LastDistanceSq) => LZone = "Belt"

C11_Witness ==
    /\ Called
    /\ zones = <<Belt, Core>>
    /\ LastDistanceSq = RSq(Rat(3, 10))
    /\ LZone = "Core"

C11_WitnessBeyond ==
    /\ Called
    /\ CoverageConfig
    /\ RLt(RSq(Rat(7, 10)), LastDistanceSq)
    /\ LZone = "Belt"

(***************************************************************************)
(* C12: for every scale factor k > 0 the point (k*x, k*y) in a world of    *)
(* radius k*R, the absolute zones' radius, posX and posY multiplied by k   *)
(* and the relative zones unchanged, gets the zone (x, y) gets in the      *)
(* world of radius R.                                                      *)
(***************************************************************************)
ScaleFactors == {Rat(1, 2), Rat(1, 10)}

\* k * n for an integer n that k scales to an integer
Scale(n, k) == (n * k[1]) \div k[2]
ScalesExactly(n, k) == (n * k[1]) % k[2] = 0

IsAbsolute(z) == ~ZGet(z, "radiusIsRelative", TRUE)

ScaleZone(z, k) ==
    IF IsAbsolute(z)
    THEN [key \in DOMAIN z |->
              IF key \in {"radius", "posX", "posY"}
              THEN RMul(z[key], k) ELSE z[key]]
    ELSE z

ScaleZones(zs, k) == [i \in 1..Len(zs) |-> ScaleZone(zs[i], k)]

\* the zone of the scaled point in the scaled world
ScaledZone(k) ==
    classify_zone_concentric(Scale(LX, k), Scale(LY, k), ScaleZones(zones, k),
                             Scale(world_radius, k))

Scalable(k) ==
    ScalesExactly(LX, k) /\ ScalesExactly(LY, k) /\ ScalesExactly(world_radius, k)

C12_NormalizationInvariance ==
    Called => \A k \in ScaleFactors : Scalable(k) => ScaledZone(k) = LZone

\* the same, for the lists without an absolute ring
AbsoluteRing(z) ==
    IsAbsolute(z) /\ ZGet(z, "distribution", "") \in {"Ring", "FlatRing"}

C12_InvariantWithoutAbsoluteRing ==
    (Called /\ \A i \in 1..Len(zones) : ~AbsoluteRing(zones[i]))
        => \A k \in ScaleFactors : Scalable(k) => ScaledZone(k) = LZone

C12_WitnessWithoutAbsoluteRing ==
    /\ Called
    /\ zones = <<Isle, Mid>>
    /\ LX = 300 /\ LY = 400
    /\ \A k \in ScaleFactors : Scalable(k) /\ ScaledZone(k) = "Isle"
    /\ LZone = "Isle"

(***************************************************************************)
(* C13: for every Ring/FlatRing zone, radiusIsRelative true or false, the  *)
(* lower bound of the annulus is insideRadius times the zone's normalized  *)
(* radius (insideRadius is never rescaled), and an absolute ring (radius   *)
(* r, insideRadius f, world radius R) classifies every point like the      *)
(* relative ring (radius r / R, insideRadius f).                           *)
(***************************************************************************)
\* the relative zone an absolute ring stands for: lengths divided by R,
\* insideRadius kept
AsRelativeRing(z, R) ==
    IF AbsoluteRing(z)
    THEN [key \in DOMAIN z |->
              IF key \in {"radius", "posX", "posY"} THEN RDivInt(z[key], R)
              ELSE IF key = "radiusIsRelative" THEN TRUE
              ELSE z[key]]
    ELSE z

AsRelativeRings(zs, R) == [i \in 1..Len(zs) |-> AsRelativeRing(zs[i], R)]

C13_InnerRadiusInvariant ==
    Called
        => /\ \A i \in ConAll :
                  IsRing(i)
                      => Cand(i).min_distance =
                             RMul(ZGet(zones[i], "insideRadius", Zero),
                                  SpecField(zones[i], "radius", world_radius))
           /\ LZone = classify_zone_concentric(
                          LX, LY, AsRelativeRings(zones, world_radius),
                          world_radius)

\* the part of C13 that is about classification alone
C13_ClassifiesLikeRelativeRing ==
    Called => LZone = classify_zone_concentric(
                          LX, LY, AsRelativeRings(zones, world_radius),
                          world_radius)

(***************************************************************************)
(* The organism files the loop has gone through, as the specification      *)
(* speaks of them.                                                         *)
(***************************************************************************)
\* the field outer.inner of a parsed record, null when it is not there
FieldOf(f, outer, inner) ==
    IF f.t = "map" /\ outer \in DOMAIN f.v
    THEN IF f.v[outer].t = "map" /\ inner \in DOMAIN f.v[outer].v
         THEN f.v[outer].v[inner] ELSE JNull
    ELSE JNull

Parsed(i) == bb8_files[i] # Unparsable

\* the files parsed with both rb2d.px and rb2d.py present
Positioned ==
    {i \in 1..Len(bb8_files) :
        /\ Parsed(i)
        /\ FieldOf(bb8_files[i], rb2d, px) # JNull
        /\ FieldOf(bb8_files[i], rb2d, py) # JNull}

Untagged == {i \in Positioned : FieldOf(bb8_files[i], genes, tag) = JNull}

\* the name of the i-th file of the directory
NameOf(i) == Len(bb8_files) + remaining + 1 - i

\* the entries of zone_species_data, each with its zone and species
Buckets ==
    UNION {UNION {{[zone |-> z, species |-> sp, entry |-> zone_species_data[z][sp][k]] :
                      k \in 1..Len(zone_species_data[z][sp])} :
                  sp \in DOMAIN zone_species_data[z]} :
           z \in DOMAIN zone_species_data}

InSpatialRun == pc \in {"loop", "done"}

(***************************************************************************)
(* C14: the zone totals sum to the number of parsed organisms that have    *)
(* both rb2d.px and rb2d.py, and so does total_organisms once all files    *)
(* are processed; an organism without x or y is in no zone bucket; N       *)
(* organisms with coordinates give the sum N.                              *)
(***************************************************************************)
C14_AggregateTotals ==
    InSpatialRun
        => /\ SumValues(zone_totals, DOMAIN zone_totals) = Cardinality(Positioned)
           /\ {b.entry.file : b \in Buckets} = {NameOf(i) : i \in Positioned}
           /\ Cardinality(Buckets) = Cardinality(Positioned)
           /\ pc = "done" => /\ remaining = 0
                             /\ total_organisms = Cardinality(Positioned)

C14_Witness ==
    /\ pc = "done"
    /\ Len(bb8_files) = 2
    /\ \A i \in 1..2 : Parsed(i)
    /\ Positioned = {2}
    /\ bb8_files[2] = JMap(rb2d :> Body(0, 0))
    /\ total_organisms = 1

(***************************************************************************)
(* C15: an organism whose genes.tag is missing or null gets the zone an    *)
(* organism with the same coordinates and a tag gets, is counted under the *)
(* species key "None" in zone_species_data and species_zone_data, and is   *)
(* counted in zone_totals.                                                 *)
(***************************************************************************)
C15_SpeciesSentinel ==
    InSpatialRun
        => /\ \A i \in Untagged :
                  \E b \in Buckets :
                      /\ b.entry.file = NameOf(i)
                      /\ b.species = "None"
                      /\ b.zone \in DOMAIN species_zone_data["None"]
                      /\ b.zone \in DOMAIN zone_totals
           /\ Cardinality(Untagged) > 0
                  => SumValues(species_zone_data["None"],
                               DOMAIN species_zone_data["None"])
                         = Cardinality(Untagged)
           /\ \A b, c \in Buckets :
                  (b.entry.x = c.entry.x /\ b.entry.y = c.entry.y)
                      => b.zone = c.zone
           /\ SumValues(zone_totals, DOMAIN zone_totals) = Cardinality(Positioned)

C15_Witness ==
    /\ pc = "done"
    /\ zones = <<Core, Mid>>
    /\ Len(bb8_files) = 2
    /\ Untagged = {1}
    /\ bb8_files[1] = JMap(rb2d :> Body(400, 0) @@ genes :> JMap(tag :> JNull))
    /\ FieldOf(bb8_files[2], genes, tag) = JStr("herb")
    /\ \E b, c \in Buckets :
           /\ b.species = "None" /\ c.species = "herb"
           /\ b.entry.x = 400 /\ c.entry.x = 400
           /\ b.zone = "Core" /\ c.zone = "Core"
    /\ zone_totals["Core"] = 2

(***************************************************************************)
(* C16: in the loops of generate_spatial_analysis and process_batch_files  *)
(* a file that fails to load adds exactly one entry to the error list and  *)
(* leaves the accumulated results unchanged; the loop goes on with the     *)
(* other files, in every order of good and bad files; process_batch_files  *)
(* returns with len(results) + len(errors) = number of .bb8 files.         *)
(***************************************************************************)
FailedLoad ==
    /\ Len(bb8_files') = Len(bb8_files) + 1
    /\ bb8_files'[Len(bb8_files')] = Unparsable

C16_FailedLoadStep ==
    FailedLoad
        => /\ Len(errors') = Len(errors) + 1
           /\ SubSeq(errors', 1, Len(errors)) = errors
           /\ errors'[Len(errors')] = NameOf(Len(bb8_files) + 1)
           /\ UNCHANGED <<zone_species_data, zone_totals, species_zone_data,
                          results, pc>>

C16_EveryFileProcessed ==
    /\ pc \in {"loop", "done", "batch", "returned"}
           => /\ Len(errors) = Cardinality({i \in 1..Len(bb8_files) : ~Parsed(i)})
              /\ \A i \in 1..Len(bb8_files) :
                     ~Parsed(i) => \E k \in 1..Len(errors) : errors[k] = NameOf(i)
    /\ pc \in {"batch", "returned"}
           => /\ Len(results) = Cardinality({i \in 1..Len(bb8_files) : Parsed(i)})
              /\ \A i \in 1..Len(bb8_files) :
                     Parsed(i) => \E k \in 1..Len(results) :
                                      results[k][FileKey] = NameOf(i)
    /\ pc \in {"loop", "done"}
           => {b.entry.file : b \in Buckets} = {NameOf(i) : i \in Positioned}
    /\ pc \in {"done", "returned"} => remaining = 0
    /\ pc = "returned" => Len(results) + Len(errors) = Len(bb8_files)

C16_PerFileErrorIsolation ==
    [][C16_FailedLoadStep]_vars /\ []C16_EveryFileProcessed

C16_Witness ==
    /\ pc = "returned"
    /\ Len(bb8_files) = 2
    /\ bb8_files[1] = Unparsable
    /\ Parsed(2)
    /\ Len(errors) = 1
    /\ Len(results) = 1
    /\ results[1][FileKey] = NameOf(2)

C16_WitnessSpatial ==
    /\ pc = "done"
    /\ Len(bb8_files) = 2
    /\ bb8_files[1] = Unparsable
    /\ Positioned = {2}
    /\ Len(errors) = 1
    /\ total_organisms = 1

(***************************************************************************)
(* Zone resolution as the specification speaks of it: the snapshot whose   *)
(* archive was looked for, and what came back.                             *)
(***************************************************************************)
Resolving == pc \in {"resolved", "raised"}

ArchiveRead == snapshot.catalog = "listed" /\ snapshot.archive = "readable"

DefaultRadii == {DefaultRadiusNoArchive, DefaultRadiusNoSetting}

(***************************************************************************)
(* C17: when the archive of the snapshot directory cannot be located or    *)
(* opened, parse_zone_configuration returns the empty list and             *)
(* extract_world_radius a default world radius; neither raises and the     *)
(* analysis goes on.                                                       *)
(***************************************************************************)
C17_ZoneResolutionFailure ==
    (Resolving /\ ~ArchiveRead)
        => /\ pc = "resolved"
           /\ zones = <<>>
           /\ world_radius \in DefaultRadii
           /\ ENABLED BeginLoop

C17_Witness ==
    /\ pc = "resolved"
    /\ snapshot.catalog = "listed"
    /\ snapshot.archive = "corrupt"
    /\ snapshot.zones = <<Core, Mid>>
    /\ zones = <<>>
    /\ world_radius = DefaultRadiusOnError

C17_WitnessNotLocated ==
    /\ pc = "resolved"
    /\ snapshot.catalog = "unlisted"
    /\ zones = <<>>
    /\ world_radius = DefaultRadiusOnError

(***************************************************************************)
(* C18: the list parse_zone_configuration returns holds every harvested    *)
(* candidate with material "Plant" and radius > 0, whatever its other      *)
(* fields, and no other candidate.  The code also asks for a non-empty     *)
(* name, and it stops at the first named Plant candidate whose radius is   *)
(* not a number (the comparison raises; the zones kept so far are          *)
(* returned).                                                              *)
(***************************************************************************)
Range(seq) == {seq[i] : i \in 1..Len(seq)}

PlantWithRadius(z) ==
    /\ ZGet(z, "material", "") = "Plant"
    /\ "radius" \in DOMAIN z
    /\ RLt(Zero, z.radius)

NamedPlantWithRadius(z) == ZGet(z, "name", "") # "" /\ PlantWithRadius(z)

C18_PlantFilterAsClaimed ==
    (pc = "resolved" /\ ArchiveRead)
        => Range(zones) = {z \in Range(snapshot.zones) : PlantWithRadius(z)}

\* the candidates before the first named Plant candidate whose radius is
\* not a number
Stops(z) ==
    /\ ZGet(z, "name", "") # ""
    /\ ZGet(z, "material", "") = "Plant"
    /\ "radiusText" \in DOMAIN z

Examined(harvest) ==
    LET stops == {i \in 1..Len(harvest) : Stops(harvest[i])}
    IN  IF stops = {} THEN harvest
        ELSE SubSeq(harvest, 1, (CHOOSE i \in stops : \A j \in stops : i <= j) - 1)

C18_NamedPlantFilter ==
    (pc = "resolved" /\ ArchiveRead)
        => zones = SelectSeq(Examined(snapshot.zones), NamedPlantWithRadius)

C18_Witness ==
    /\ pc = "resolved"
    /\ ArchiveRead
    /\ snapshot.zones = <<Unnamed, Core>>
    /\ PlantWithRadius(Unnamed)
    /\ zones = <<Core>>

C18_WitnessStops ==
    /\ pc = "resolved"
    /\ ArchiveRead
    /\ snapshot.zones = <<Core, Marsh>>
    /\ zones = <<Core>>

(***************************************************************************)
(* C19: when the settings hold a key that contains "SimulationSize" in any *)
(* letter case whose value is a number or an object with a numeric Value,  *)
(* extract_world_radius returns that number; it returns a default only     *)
(* when there is no such key.                                              *)
(***************************************************************************)
ContainsAnyCase(key) == IsSubstring(Lower(KeySimulationSize), Lower(key))

HasNumber(value) ==
    \/ value.t = "num"
    \/ /\ value.t = "map"
       /\ KeyValue \in DOMAIN value.v
       /\ value.v[KeyValue].t = "num"

NumberOf(value) == IF value.t = "num" THEN value.v ELSE value.v[KeyValue].v

SizeSettings ==
    {i \in 1..Len(snapshot.settings) :
        /\ ContainsAnyCase(snapshot.settings[i][1])
        /\ HasNumber(snapshot.settings[i][2])}

C19_WorldRadiusLookup ==
    (pc = "resolved" /\ ArchiveRead)
        => IF SizeSettings # {}
           THEN world_radius \in {NumberOf(snapshot.settings[i][2]) : i \in SizeSettings}
           ELSE world_radius \in DefaultRadii

\* the lookup the code makes: the first key that contains "SimulationSize"
\* in exactly this case decides
ExactCase == {i \in 1..Len(snapshot.settings) :
                 IsSubstring(KeySimulationSize, snapshot.settings[i][1])}

C19_ExactCaseLookup ==
    (pc = "resolved" /\ ArchiveRead)
        => IF \E i \in ExactCase :
                  /\ \A j \in ExactCase : i <= j
                  /\ HasNumber(snapshot.settings[i][2])
           THEN \E i \in ExactCase :
                    /\ \A j \in ExactCase : i <= j
                    /\ world_radius = NumberOf(snapshot.settings[i][2])
           ELSE world_radius \in DefaultRadii

C19_WitnessExactCase ==
    /\ pc = "resolved"
    /\ ArchiveRead
    /\ Len(snapshot.settings) = 2
    /\ snapshot.settings[2][1] = KeyNested
    /\ world_radius = 500

(***************************************************************************)
(* C20: extract_field never raises.  For every record and every dotted     *)
(* path it returns the value reached by following all the segments of the  *)
(* path, or None as soon as the current node is not a container or the     *)
(* container lacks the segment as a key; extract_multiple_fields returns a *)
(* map with one entry per distinct path, equal to extract_field on it.     *)
(***************************************************************************)
\* the segments of a dotted path: the runs of characters between the dots
Segments(path) ==
    LET dots == {i \in 1..Len(path) : path[i] = "."}
        cuts == {0} \cup dots \cup {Len(path) + 1}
        NextCut(c) == CHOOSE d \in cuts : d > c /\ \A e \in cuts : e > c => d <= e
        Starts == cuts \ {Len(path) + 1}
        Nth[k \in 1..Cardinality(Starts)] ==
            IF k = 1 THEN 0 ELSE NextCut(Nth[k - 1])
    IN  [k \in 1..Cardinality(Starts) |->
            SubSeq(path, Nth[k] + 1, NextCut(Nth[k]) - 1)]

\* a list has no string key: a segment into a list, a string, a number, a
\* boolean or null reaches nothing
RECURSIVE Follow(_, _)
Follow(node, segs) ==
    IF segs = <<>> THEN node
    ELSE IF node.t # "map" THEN JNull
    ELSE IF Head(segs) \notin DOMAIN node.v THEN JNull
    ELSE Follow(node.v[Head(segs)], Tail(segs))

SingleDone == pc \in {"single_returned", "raised"}

C20_ExtractNeverRaises ==
    SingleDone
        => /\ pc = "single_returned"
           /\ DOMAIN results[1] = Range(field_paths)
           /\ \A path \in Range(field_paths) :
                  /\ extract_field(bb8_files[1], path)
                         = [val |-> Follow(bb8_files[1], Segments(path))]
                  /\ results[1][path] = Follow(bb8_files[1], Segments(path))

C20_Witness ==
    /\ pc = "single_returned"
    /\ bb8_files = <<RecList>>
    /\ field_paths = <<Dotted(ka, kb), ka>>
    /\ results[1][Dotted(ka, kb)] = JNull
    /\ results[1][ka] = JList(<<JMap(kb :> JNum(1))>>)

C20_WitnessReached ==
    /\ pc = "single_returned"
    /\ bb8_files = <<RecDeep>>
    /\ field_paths = <<Dotted(Dotted(ka, kb), ka), kempty>>
    /\ results[1][Dotted(Dotted(ka, kb), ka)] = JBool(TRUE)
    /\ results[1][kempty] = JNum(7)

(***************************************************************************)
(* C22: when no positioned zone contains the point, the zone returned is   *)
(* the first, in ascending (priority, width) order with centre discs at    *)
(* priority 1 and rings at priority 2, whose closed interval contains the  *)
(* relative distance: a disc beats any ring that contains the point, a     *)
(* narrower zone beats a wider one of the same kind, and zones equal in    *)
(* both keys are taken in the order of the input list.                     *)
(***************************************************************************)
SpecPriority(i) == IF IsDisc(i) THEN 1 ELSE 2

Ahead(i, j) ==
    \/ SpecPriority(i) < SpecPriority(j)
    \/ /\ SpecPriority(i) = SpecPriority(j)
       /\ \/ RLt(Width(Cand(i)), Width(Cand(j)))
          \/ Width(Cand(i)) = Width(Cand(j)) /\ i < j

FirstContaining == {i \in ConIdx : \A j \in ConIdx \ {i} : Ahead(i, j)}

C22_ConcentricMatchOrder ==
    (Called /\ PosIdx = {} /\ ConIdx # {})
        => /\ Cardinality(FirstContaining) = 1
           /\ \A i \in FirstContaining : LZone = ZoneName(i)

\* two rings of equal width that both contain the point, in either order
C22_Witness ==
    /\ Called /\ PosIdx = {}
    /\ zones = <<Belt, Mid>>
    /\ ConIdx = {1, 2}
    /\ Width(Cand(1)) = Width(Cand(2))
    /\ LZone = "Belt"

C22_WitnessInputOrder ==
    /\ Called /\ PosIdx = {}
    /\ zones = <<Mid, Belt>>
    /\ ConIdx = {1, 2}
    /\ LZone = "Mid"

\* a disc and a ring that share the boundary the point lies on
C22_WitnessSharedBoundary ==
    /\ Called /\ PosIdx = {}
    /\ zones = <<Belt, Core>>
    /\ ConIdx = {1, 2}
    /\ DSq = RSq(Cand(1).min_distance)
    /\ DSq = RSq(Cand(2).max_distance)
    /\ LZone = "Core"

(***************************************************************************)
(* C30: extract_world_radius returns 1500.0 on every path on which no      *)
(* SimulationSize value is obtained (archive not found, archive            *)
(* unreadable, setting absent, any exception); the 750.0 branch is never   *)
(* taken, because get_zip_file_from_data_path returns an archive path or   *)
(* raises.                                                                 *)
(***************************************************************************)
ValueObtained ==
    /\ ArchiveRead
    /\ \E i \in ExactCase :
           /\ \A j \in ExactCase : i <= j
           /\ HasNumber(snapshot.settings[i][2])

C30_WitnessException ==
    /\ pc = "resolved"
    /\ ArchiveRead
    /\ snapshot.settings = <<<<KeySimulationSize, JMap(KeyValue :> JStr("large"))>>>>
    /\ world_radius = DefaultRadiusOnError

C30_WitnessAbsent ==
    /\ pc = "resolved"
    /\ ArchiveRead
    /\ snapshot.settings = <<>>
    /\ world_radius = DefaultRadiusNoSetting

(***************************************************************************)
(* C29: when every zone of the list has a non-empty name,                  *)
(* classify_zone_concentric never returns "Beyond": whenever there are     *)
(* concentric candidates and none contains the point, the nearest-zone     *)
(* loop selects a named zone.                                              *)
(***************************************************************************)
AllNamed == \A i \in 1..Len(zones) : ZGet(zones[i], "name", "") # ""

C29_BeyondUnreachable ==
    (Called /\ AllNamed)
        => /\ LZone # "Beyond"
           /\ (PosIdx = {} /\ ConAll # {} /\ ConIdx = {})
                  => LZone \in {ZoneName(i) : i \in ConAll}

C29_Witness ==
    /\ Called /\ AllNamed
    /\ zones = <<Mid>>
    /\ LX = 0 /\ LY = 0
    /\ PosIdx = {} /\ ConAll = {1} /\ ConIdx = {}
    /\ LZone = "Mid"

(***************************************************************************)
(* C27: classify_zone_concentric leaves the zone list and every zone       *)
(* definition in it unchanged (radius, insideRadius, posX and posY of a    *)
(* zone with radiusIsRelative == false are not overwritten by their        *)
(* normalized values), so a point classified again after other             *)
(* classifications with the same list gets the same zone.                  *)
(***************************************************************************)

C27_SameResultAgain ==
    InSpatialRun
        => \A b \in Buckets :
               b.zone = (IF zones # <<>>
                         THEN classify_zone_concentric(b.entry.x, b.entry.y,
                                                       zones, world_radius)
                         ELSE "Unknown")

\* a step of the loop over the organism files
C27_ZonesKept == pc = "loop" => zones' = zones

EntriesOf(z, sp) ==
    IF z \in DOMAIN zone_species_data /\ sp \in DOMAIN zone_species_data[z]
    THEN Len(zone_species_data[z][sp]) ELSE 0

CountOf(sp, z) ==
    IF sp \in DOMAIN species_zone_data /\ z \in DOMAIN species_zone_data[sp]
    THEN species_zone_data[sp][z] ELSE 0

TotalOf(z) == IF z \in DOMAIN zone_totals THEN zone_totals[z] ELSE 0

ZonesSeen ==
    DOMAIN zone_species_data \cup DOMAIN zone_totals
        \cup UNION {DOMAIN species_zone_data[sp] : sp \in DOMAIN species_zone_data}

SpeciesSeen ==
    DOMAIN species_zone_data
        \cup UNION {DOMAIN zone_species_data[z] : z \in DOMAIN zone_species_data}

RECURSIVE SumEntries(_, _)
SumEntries(z, sps) ==
    IF sps = {} THEN 0
    ELSE LET sp == CHOOSE sp \in sps : TRUE
         IN  EntriesOf(z, sp) + SumEntries(z, sps \ {sp})

Skipped == {i \in 1..Len(bb8_files) : Parsed(i) /\ i \notin Positioned}

C28_AggregationConsistency ==
    InSpatialRun
        => /\ \A z \in ZonesSeen :
                  /\ \A sp \in SpeciesSeen : CountOf(sp, z) = EntriesOf(z, sp)
                  /\ TotalOf(z) = SumEntries(z, SpeciesSeen)
           /\ Len(bb8_files) = SumValues(zone_totals, DOMAIN zone_totals)
                                   + Cardinality(Skipped) + Len(errors)

C28_Witness ==
    /\ pc = "loop"
    /\ remaining = 0
    /\ Len(bb8_files) = 2
    /\ bb8_files[1] = bb8_files[2]
    /\ \E z \in ZonesSeen : \E sp \in SpeciesSeen :
           /\ EntriesOf(z, sp) = 2
           /\ CountOf(sp, z) = 2
           /\ TotalOf(z) = 2

C28_WitnessMixedPrefix ==
    /\ pc = "loop"
    /\ remaining = 0
    /\ Len(bb8_files) = 2
    /\ Len(errors) = 1
    /\ Cardinality(Skipped) = 1

(***************************************************************************)
(* C23: in the report, radial_analysis.zone_distance_ranges[zone] holds as *)
(* min_distance and max_distance the minimum and the maximum radial        *)
(* distance over all organisms classified into the zone, across every      *)
(* species of the zone.                                                    *)
(***************************************************************************)
ZoneDistances(z) == {b.entry.distance : b \in {c \in Buckets : c.zone = z}}

Ranges == analysis_summary.radial_analysis.zone_distance_ranges

C23_ZoneRadialStatistics ==
    pc = "done"
        => /\ DOMAIN Ranges = DOMAIN zone_species_data
           /\ \A z \in DOMAIN Ranges :
                  /\ Ranges[z].min_distance = MinOf(ZoneDistances(z))
                  /\ Ranges[z].max_distance = MaxOf(ZoneDistances(z))

\* what the code reports: the range over the organisms of one species, the
\* last one met in the zone
LastMet(z) ==
    CHOOSE sp \in DOMAIN zone_species_data[z] :
        \A b \in Buckets : b.zone = z => \E k \in 1..Len(zone_species_data[z][sp]) :
            zone_species_data[z][sp][k].file <= b.entry.file

SpeciesDistances(z, sp) ==
    {b.entry.distance : b \in {c \in Buckets : c.zone = z /\ c.species = sp}}

C23_LastSpeciesOnly ==
    pc = "done"
        => /\ DOMAIN Ranges = DOMAIN zone_species_data
           /\ \A z \in DOMAIN Ranges :
                  /\ Ranges[z].min_distance = MinOf(SpeciesDistances(z, LastMet(z)))
                  /\ Ranges[z].max_distance = MaxOf(SpeciesDistances(z, LastMet(z)))

C23_WitnessLastSpecies ==
    /\ pc = "done"
    /\ zones = <<Core, Mid>>
    /\ DOMAIN zone_species_data = {"Core"}
    /\ DOMAIN zone_species_data["Core"] = {"herb", "None"}
    /\ ZoneDistances("Core") = {Rat(0, 1), Rat(160000, 1)}
    /\ Ranges["Core"].min_distance = Rat(160000, 1)
    /\ Ranges["Core"].max_distance = Rat(160000, 1)

(***************************************************************************)
(* C24: _classify_zone(x, y) returns exactly one of five names, decided in *)
(* this order: "Void" if |x| > 14000 or |y| > 14000; else "Northern        *)
(* Island" if y > 5000; else "Southern Island" if y < -5000; else "Eastern *)
(* Island" if x > 7000; else "Central/Western".  A point with |x| = 14000  *)
(* and |y| = 14000 is not "Void".                                          *)
(***************************************************************************)
LegacyDone == pc = "legacy_done"

IsVoid == LX > 14000 \/ LX < -14000 \/ LY > 14000 \/ LY < -14000

C24_LegacyClassifier ==
    LegacyDone
        => /\ LZone \in {"Void", "Northern Island", "Southern Island",
                         "Eastern Island", "Central/Western"}
           /\ LZone = "Void" <=> IsVoid
           /\ LZone = "Northern Island" <=> (~IsVoid /\ LY > 5000)
           /\ LZone = "Southern Island" <=> (~IsVoid /\ LY < -5000)
           /\ LZone = "Eastern Island"
                  <=> (~IsVoid /\ LY <= 5000 /\ LY >= -5000 /\ LX > 7000)
           /\ LZone = "Central/Western"
                  <=> (~IsVoid /\ LY <= 5000 /\ LY >= -5000 /\ LX <= 7000)
           /\ (LX \in {14000, -14000} /\ LY \in {14000, -14000}) => LZone # "Void"

C24_Witness ==
    /\ LegacyDone
    /\ LX = -14000 /\ LY = 14000
    /\ LZone = "Northern Island"

C24_WitnessPriority ==
    /\ LegacyDone
    /\ LX = 14001 /\ LY = 5001
    /\ LZone = "Void"

(***************************************************************************)
(* The last call of resolve_data_paths and the comparison run on its       *)
(* paths, for the properties below.                                        *)
(***************************************************************************)
CallMade == resolved # <<>>
TheCall == resolved[1]

\* the comparison ran on two paths resolved by --last 2
ComparedLastTwo ==
    /\ CallMade
    /\ ~TheCall.latest /\ TheCall.last = 2
    /\ compared # <<>>
    /\ "cycle_a" \in DOMAIN compared[1]

\* the timestamp in the name of the autosave a data directory belongs to
Timestamp(path) == path[2]

Selected == Range(TheCall.zip_files)
Reached == {p[2] : p \in Range(TheCall.reached)}
Attempted == Range(TheCall.attempted)

\* the saves whose extraction ran to its end in the call
Extracted ==
    IF TheCall.returned \/ TheCall.attempted = <<>> THEN Attempted
    ELSE Attempted \ {TheCall.attempted[Len(TheCall.attempted)]}

HeldBb8(s) == TheCall.before[s] = "bb8"

C26_CacheAsClaimed ==
    CallMade
        => /\ \A s \in Selected :
                  s \in Attempted <=> (TheCall.overwrite \/ ~HeldBb8(s))
           /\ \A s \in Selected :
                  (HeldBb8(s) /\ ~TheCall.overwrite)
                      => /\ s \notin Attempted
                         /\ get_output_directory(s) \in Range(TheCall.data_paths)

C26_CacheTransparent ==
    CallMade
        => /\ Reached \subseteq Selected
           /\ Attempted \subseteq Reached
           /\ \A s \in Reached :
                  s \in Attempted <=> (TheCall.overwrite \/ ~HeldBb8(s))
           /\ TheCall.returned => Reached = Selected
           /\ ~TheCall.returned
                  => \/ Selected = {}
                     \/ /\ Attempted # {}
                        /\ autosave_files[TheCall.attempted[Len(TheCall.attempted)]]
                               = "corrupt"
           /\ \A s \in Extracted :
                  autosave_files[s] = "organisms" => data_dirs[s] = "bb8"
           /\ \A s \in SaveNames : HeldBb8(s) => data_dirs[s] = "bb8"
           /\ \A s \in Reached :
                  (HeldBb8(s) /\ ~TheCall.overwrite)
                      => /\ s \notin Attempted
                         /\ TheCall.returned
                                => get_output_directory(s) \in Range(TheCall.data_paths)

\* a second call finds the data of the first
C26_Witness ==
    /\ CallMade
    /\ calls = 2
    /\ TheCall.returned
    /\ ~TheCall.overwrite
    /\ Selected = {1, 2}
    /\ HeldBb8(2) /\ ~HeldBb8(1)
    /\ Attempted = {1}
    /\ TheCall.data_paths = <<get_output_directory(1), get_output_directory(2)>>

\* a call that ends at a corrupt archive
C26_WitnessStopped ==
    /\ CallMade
    /\ ~TheCall.returned
    /\ TheCall.zip_files = <<1, 2>>
    /\ autosave_files[1] = "corrupt"
    /\ Attempted = {1}
    /\ Reached = {1}
    /\ ~HeldBb8(2)
    /\ data_dirs[2] = "absent"

(***************************************************************************)
(* The harvest of zone candidates from a parsed metadata document          *)
(* (extract_metadata.py, extract_zone_info_from_json).  A parsed value is  *)
(* a text, an object (its keys in the order of the file) or an array; keys *)
(* and paths are tuples of characters.                                     *)
(***************************************************************************)
MaxEntries == 2

Text == [t |-> "str"]
Object(entries) == [t |-> "dict", items |-> entries]
Array(elements) == [t |-> "list", items |-> elements]
KV(key, value) == [k |-> key, v |-> value]

\* the keys of the documents modelled
Keys ==
    [zones |-> <<"z", "o", "n", "e", "s">>,
     zone |-> <<"z", "o", "n", "e">>,
     region |-> <<"r", "e", "g", "i", "o", "n">>,
     Area |-> <<"A", "r", "e", "a">>,
     zoneName |-> <<"z", "o", "n", "e", "N", "a", "m", "e">>,
     name |-> <<"n", "a", "m", "e">>,
     material |-> <<"m", "a", "t", "e", "r", "i", "a", "l">>,
     radius |-> <<"r", "a", "d", "i", "u", "s">>,
     insideRadius |-> <<"i", "n", "s", "i", "d", "e", "R", "a", "d", "i", "u", "s">>,
     distribution |-> <<"d", "i", "s", "t", "r", "i", "b", "u", "t", "i", "o", "n">>,
     posX |-> <<"p", "o", "s", "X">>,
     food |-> <<"f", "o", "o", "d">>,
     settings |-> <<"s", "e", "t", "t", "i", "n", "g", "s">>,
     world |-> <<"w", "o", "r", "l", "d">>,
     items |-> <<"i", "t", "e", "m", "s">>,
     scene |-> <<"s", "c", "e", "n", "e">>,
     inner |-> <<"i", "n", "n", "e", "r">>]

\* zone_indicators
zone_indicators ==
    <<<<"z", "o", "n", "e">>,
      <<"r", "e", "g", "i", "o", "n">>,
      <<"a", "r", "e", "a">>,
      <<"i", "s", "l", "a", "n", "d">>,
      <<"h", "a", "b", "i", "t", "a", "t">>,
      <<"b", "i", "o", "m", "e">>,
      <<"t", "e", "r", "r", "i", "t", "o", "r", "y">>>>

\* the descriptive fields
descriptive_fields ==
    <<<<"n", "a", "m", "e">>,
      <<"t", "i", "t", "l", "e">>,
      <<"d", "e", "s", "c", "r", "i", "p", "t", "i", "o", "n">>,
      <<"t", "y", "p", "e">>,
      <<"i", "d">>,
      <<"i", "n", "d", "e", "x">>,
      <<"m", "a", "t", "e", "r", "i", "a", "l">>,
      <<"d", "i", "s", "t", "r", "i", "b", "u", "t", "i", "o", "n">>,
      <<"f", "e", "r", "t", "i", "l", "i", "t", "y">>,
      <<"b", "i", "o", "m", "a", "s", "s", "e", "n", "s", "i", "t", "y">>,
      <<"p", "e", "l", "l", "e", "t", "s", "i", "z", "e">>,
      <<"m", "o", "v", "e", "m", "e", "n", "t">>,
      <<"s", "p", "e", "e", "d">>,
      <<"p", "o", "s", "x">>,
      <<"p", "o", "s", "y">>,
      <<"r", "a", "d", "i", "u", "s">>,
      <<"i", "n", "s", "i", "d", "e", "r", "a", "d", "i", "u", "s">>>>

\* the environmental parameters
environmental_parameters ==
    <<<<"t", "e", "m", "p", "e", "r", "a", "t", "u", "r", "e">>,
      <<"h", "u", "m", "i", "d", "i", "t", "y">>,
      <<"p", "r", "e", "s", "s", "u", "r", "e">>,
      <<"g", "r", "a", "v", "i", "t", "y">>,
      <<"l", "i", "g", "h", "t">>,
      <<"f", "o", "o", "d">>,
      <<"n", "u", "t", "r", "i", "e", "n", "t", "s">>,
      <<"t", "o", "x", "i", "c", "i", "t", "y">>,
      <<"s", "i", "z", "e">>,
      <<"w", "i", "d", "t", "h">>,
      <<"h", "e", "i", "g", "h", "t">>,
      <<"c", "a", "p", "a", "c", "i", "t", "y">>,
      <<"p", "o", "p", "u", "l", "a", "t", "i", "o", "n">>,
      <<"e", "n", "e", "r", "g", "y">>,
      <<"r", "e", "s", "o", "u", "r", "c", "e", "s">>>>

\* str(i) for the indices of the arrays modelled (all below ten)
Str(i) == <<(<<"0", "1", "2", "3", "4", "5", "6", "7", "8", "9">>)[i + 1]>>

\* Mutant: the descriptive words material, distribution, posx, radius and
\* insideradius count as zone indicators too.
IsZoneIndicator_WithDescriptive(key) ==
    \/ \E i \in 1..Len(zone_indicators) :
           IsSubstring(zone_indicators[i], Lower(key))
    \/ Lower(key) \in {Lower(Keys.material), Lower(Keys.distribution), Lower(Keys.posX),
                       Lower(Keys.radius), Lower(Keys.insideRadius)}

\* any(indicator in key_lower for indicator in zone_indicators)
IsZoneIndicator(key) ==
    \E i \in 1..Len(zone_indicators) :
        IsSubstring(zone_indicators[i], Lower(key))

IsDescriptive(key) ==
    \E i \in 1..Len(descriptive_fields) : Lower(key) = descriptive_fields[i]

IsEnvironmental(key) ==
    \E i \in 1..Len(environmental_parameters) :
        Lower(key) = environmental_parameters[i]

\* key in obj, obj[key]
HasKey(obj, key) == \E i \in 1..Len(obj.items) : obj.items[i].k = key
ValueAt(obj, key) ==
    obj.items[CHOOSE i \in 1..Len(obj.items) : obj.items[i].k = key].v

\* f"{path}.{key}" if path else key
ChildPath(path, key) == IF path # <<>> THEN path \o <<".">> \o key ELSE key

\* f"{path}[{i}]" if path else f"[{i}]", i counted from 0
ItemPath(path, i) == path \o <<"[">> \o Str(i) \o <<"]">>

\* a harvested candidate: the copied keys, then _source_path and _source_file
Candidate(entries, path, filename) ==
    [fields |-> entries, _source_path |-> path, _source_file |-> filename]

\* the copies of the object elements of obj['zones']
DirectZones(obj, path, filename) ==
    IF HasKey(obj, Keys.zones) /\ ValueAt(obj, Keys.zones).t = "list"
    THEN LET zs == ValueAt(obj, Keys.zones).items
             F[i \in 0..Len(zs)] ==
                 IF i = 0 THEN <<>>
                 ELSE IF zs[i].t = "dict"
                 THEN Append(F[i - 1],
                             Candidate(zs[i].items,
                                       ChildPath(path, Keys.zones) \o <<"[">>
                                           \o Str(i - 1) \o <<"]">>,
                                       filename))
                 ELSE F[i - 1]
         IN  F[Len(zs)]
    ELSE <<>>

\* zone_data and has_zone_info after the loop over obj.items()
ZoneData(obj) ==
    SelectSeq(obj.items,
              LAMBDA e : IsZoneIndicator(e.k) \/ IsDescriptive(e.k)
                             \/ IsEnvironmental(e.k))

HasZoneInfo(obj) == \E i \in 1..Len(obj.items) : IsZoneIndicator(obj.items[i].k)

\* the values the loop searches: objects and arrays under a key of none of
\* the three families
Searched(e) ==
    /\ ~IsZoneIndicator(e.k) /\ ~IsDescriptive(e.k) /\ ~IsEnvironmental(e.k)
    /\ e.v.t \in {"dict", "list"}
    /\ e.k # Keys.zones

\* search_for_zones: the candidates appended to zones by one call, in order
RECURSIVE search_for_zones(_, _, _)
search_for_zones(obj, path, filename) ==
    IF obj.t = "dict"
    THEN LET Below[i \in 0..Len(obj.items)] ==
                 IF i = 0 THEN <<>>
                 ELSE IF Searched(obj.items[i])
                 THEN Below[i - 1]
                          \o search_for_zones(obj.items[i].v,
                                              ChildPath(path, obj.items[i].k),
                                              filename)
                 ELSE Below[i - 1]
             own == IF HasZoneInfo(obj) /\ ZoneData(obj) # <<>>
                       /\ ~HasKey(obj, Keys.zones)
                    THEN <<Candidate(ZoneData(obj),
                                     IF path # <<>> THEN path
                                     ELSE <<"r", "o", "o", "t">>,
                                     filename)>>
                    ELSE <<>>
         IN  DirectZones(obj, path, filename) \o Below[Len(obj.items)] \o own
    ELSE IF obj.t = "list"
    THEN LET Items[i \in 0..Len(obj.items)] ==
                 IF i = 0 THEN <<>>
                 ELSE Items[i - 1]
                          \o search_for_zones(obj.items[i], ItemPath(path, i - 1),
                                              filename)
         IN  Items[Len(obj.items)]
    ELSE <<>>

extract_zone_info_from_json(data, filename) == search_for_zones(data, <<>>, filename)

\* the objects of the documents modelled
PlantObject ==
    Object(<<KV(Keys.name, Text), KV(Keys.material, Text), KV(Keys.radius, Text),
             KV(Keys.distribution, Text)>>)
NamedZone == Object(<<KV(Keys.zoneName, Text), KV(Keys.posX, Text)>>)
Scene ==
    Object(<<KV(Keys.zones, Array(<<NamedZone>>)), KV(Keys.inner, NamedZone)>>)

\* the entries a document is made of
EntryPool ==
    {KV(Keys.settings, PlantObject),
     KV(Keys.zones, Array(<<PlantObject, Text>>)),
     KV(Keys.zones, Text),
     KV(Keys.world, NamedZone),
     KV(Keys.zone, Text),
     KV(Keys.name, Text),
     KV(Keys.region, NamedZone),
     KV(Keys.material, NamedZone),
     KV(Keys.items, Array(<<NamedZone, PlantObject>>)),
     KV(Keys.Area, Text),
     KV(Keys.food, Text),
     KV(Keys.scene, Scene)}

\* an object has each key once
DistinctKeys(entries) ==
    \A i, j \in 1..Len(entries) : entries[i].k = entries[j].k => i = j

\* the documents harvested: "if json_data" leaves the empty one out
Documents ==
    {Object(es) : es \in {e \in SeqsUpTo(EntryPool, MaxEntries) :
                              e # <<>> /\ DistinctKeys(e)}}

SettingsFile == "settings.bb8settings"

InitHarvest ==
    /\ pc = "harvest"
    /\ zones = <<>>
    /\ world_radius = 0
    /\ remaining = 0
    /\ zone_species_data = <<>>
    /\ zone_totals = <<>>
    /\ species_zone_data = <<>>
    /\ errors = <<>>
    /\ total_organisms = 0
    /\ last = <<>>
    /\ snapshot = <<>>
    /\ bb8_files = <<>>
    /\ field_paths = <<>>
    /\ results = <<>>
    /\ file_info = <<>>
    /\ json_data \in Documents
    /\ analysis_summary = <<>>
    /\ autosave_files = <<>>
    /\ data_dirs = <<>>
    /\ resolved = <<>>
    /\ compared = <<>>
    /\ calls = 0

\* file_info['zones'] = extract_zone_info_from_json(json_data, filename)
Harvest ==
    /\ pc = "harvest"
    /\ pc' = "harvest_done"
    /\ file_info' = [zones |-> extract_zone_info_from_json(json_data, SettingsFile)]
    /\ UNCHANGED <<cliVars, json_data, zones, world_radius, remaining,
                   zone_species_data, zone_totals, species_zone_data, errors,
                   total_organisms, last, snapshot, bb8_files, field_paths,
                   results, analysis_summary>>

NextHarvest == Harvest

SpecHarvest == InitHarvest /\ [][NextHarvest]_vars

(***************************************************************************)
(* The objects of a document, for the properties of the harvest.           *)
(***************************************************************************)
Harvested == pc = "harvest_done"

\* the zone vocabulary of the specification
ZoneVocabulary ==
    {Keys.zone, Keys.region, <<"i", "s", "l", "a", "n", "d">>,
     <<"h", "a", "b", "i", "t", "a", "t">>, Keys.material, Keys.distribution,
     Keys.posX, Keys.radius, Keys.insideRadius}

HasVocabularyKey(obj) == \E i \in 1..Len(obj.items) : obj.items[i].k \in ZoneVocabulary

\* every object of the document, with the path that leads to it
RECURSIVE Nested(_, _)
Nested(value, path) ==
    IF value.t = "dict"
    THEN {[path |-> path, obj |-> value]}
             \cup UNION {Nested(value.items[i].v, ChildPath(path, value.items[i].k)) :
                             i \in 1..Len(value.items)}
    ELSE IF value.t = "list"
    THEN UNION {Nested(value.items[i], ItemPath(path, i - 1)) :
                    i \in 1..Len(value.items)}
    ELSE {}

\* the key names a zone: its lower-case form contains zone, region, area,
\* island, habitat, biome or territory
NamesAZone(key) == \E w \in Range(zone_indicators) : IsSubstring(w, Lower(key))

\* the keys whose values are copied into a candidate and not searched
Copied(key) ==
    \/ NamesAZone(key)
    \/ Lower(key) \in Range(descriptive_fields) \cup Range(environmental_parameters)

\* the objects the search reaches: the document, the elements of the arrays
\* reached and the objects and arrays under a key that is not copied
RECURSIVE SearchReaches(_, _)
SearchReaches(value, path) ==
    IF value.t = "dict"
    THEN {[path |-> path, obj |-> value]}
             \cup UNION {SearchReaches(value.items[i].v, ChildPath(path, value.items[i].k)) :
                             i \in {j \in 1..Len(value.items) :
                                        ~Copied(value.items[j].k)}}
    ELSE IF value.t = "list"
    THEN UNION {SearchReaches(value.items[i], ItemPath(path, i - 1)) :
                    i \in 1..Len(value.items)}
    ELSE {}

PathName(path) == IF path = <<>> THEN <<"r", "o", "o", "t">> ELSE path

\* the candidate made of a reached object: its copied keys
OwnCandidate(r) ==
    IF (\E i \in 1..Len(r.obj.items) : NamesAZone(r.obj.items[i].k))
           /\ ~HasKey(r.obj, Keys.zones)
    THEN {Candidate(SelectSeq(r.obj.items, LAMBDA e : Copied(e.k)),
                    PathName(r.path), SettingsFile)}
    ELSE {}

\* the candidates made of the object elements of its zones array
ZonesArrayCandidates(r) ==
    IF HasKey(r.obj, Keys.zones) /\ ValueAt(r.obj, Keys.zones).t = "list"
    THEN LET zs == ValueAt(r.obj, Keys.zones).items
         IN  {Candidate(zs[i].items, ItemPath(ChildPath(r.path, Keys.zones), i - 1),
                        SettingsFile) :
                  i \in {j \in 1..Len(zs) : zs[j].t = "dict"}}
    ELSE {}

SourcePaths == {file_info.zones[i]._source_path : i \in 1..Len(file_info.zones)}

(***************************************************************************)
(* C21: every nested object with at least one key of the zone vocabulary   *)
(* (zone, region, island, habitat, material, distribution, posX, radius,   *)
(* insideRadius) becomes a candidate zone definition, as does every object *)
(* element of a direct zones array.  In the code an object becomes a       *)
(* candidate only when one of its keys contains zone, region, area,        *)
(* island, habitat, biome or territory, it has no zones key and the search *)
(* reaches it; material, distribution, posX, radius and insideRadius are   *)
(* copied into a candidate but do not make one.                            *)
(***************************************************************************)
C21_VocabularyHarvest ==
    Harvested
        => \A n \in Nested(json_data, <<>>) :
               /\ HasVocabularyKey(n.obj) => PathName(n.path) \in SourcePaths
               /\ \A c \in ZonesArrayCandidates(n) : c._source_path \in SourcePaths

C21_IndicatorHarvest ==
    Harvested
        => LET expected == UNION {OwnCandidate(r) \cup ZonesArrayCandidates(r) :
                                      r \in SearchReaches(json_data, <<>>)}
           IN  /\ Range(file_info.zones) = expected
               /\ Len(file_info.zones) = Cardinality(expected)

\* a zones array, an object under it and the document itself
C21_Witness ==
    /\ Harvested
    /\ json_data = Object(<<KV(Keys.scene, Scene), KV(Keys.zone, Text)>>)
    /\ Len(file_info.zones) = 3
    /\ file_info.zones[1] =
           Candidate(NamedZone.items,
                     Keys.scene \o <<".">> \o Keys.zones \o <<"[", "0", "]">>,
                     SettingsFile)
    /\ file_info.zones[2] =
           Candidate(NamedZone.items, Keys.scene \o <<".">> \o Keys.inner, SettingsFile)
    /\ file_info.zones[3] =
           Candidate(<<KV(Keys.zone, Text)>>, <<"r", "o", "o", "t">>, SettingsFile)

\* an object with only name, material, radius and distribution
C21_WitnessDescriptiveOnly ==
    /\ Harvested
    /\ json_data = Object(<<KV(Keys.settings, PlantObject)>>)
    /\ HasVocabularyKey(PlantObject)
    /\ file_info.zones = <<>>

\* an object with a zone key that the search does not reach
C21_WitnessNotReached ==
    /\ Harvested
    /\ json_data = Object(<<KV(Keys.material, NamedZone), KV(Keys.Area, Text)>>)
    /\ file_info.zones =
           <<Candidate(json_data.items, <<"r", "o", "o", "t">>, SettingsFile)>>

====
